---- MODULE Spec2Model ----
(***************************************************************************)
(* Online judge: submission pipeline and job state machine.                *)
(*                                                                         *)
(* The model follows the HTTP handlers (POST /jobs, PUT /jobs/{id},        *)
(* DELETE /jobs/{id}), the in-memory job queue, the worker loop, the       *)
(* persistence operations of database.rs and the sandbox runner's          *)
(* compile-then-run bookkeeping.  Every `.await` of a handler or of the    *)
(* worker is a scheduling point: one action of the model is the code       *)
(* between two awaits.  A database transaction is atomic; database calls   *)
(* are taken to succeed (the sqlx::Error branches are environment          *)
(* faults and are not modelled).  The sandbox run is an external process:  *)
(* its outcome is a nondeterministic input of the worker.                  *)
(***************************************************************************)
EXTENDS Integers, Sequences, FiniteSets, TLC

\* ------------------------------------------------------------------ bounds
MaxJobs == 2
MaxQueue == 2
NumWorkers == 2
NumHandlers == 2
NumCases == 1
MaxRequests == 4
MaxClock == 1

Workers == 1..NumWorkers
Handlers == 1..NumHandlers
JobIds == 0..(MaxJobs - 1)

\* ------------------------------------------------------------ configuration
\* One configured problem (id 0) with NumCases cases; case i scores CaseScore(i).
CaseScore(i) == 10 * i

problems == << [id |-> 0, cases |-> [i \in 1..NumCases |-> [score |-> CaseScore(i)]]] >>

languages == << [name |-> "py"] >>

\* users table after init_db: the built-in root user
RootUser == [id |-> 0, name |-> "root"]

\* names a client may give to a user, the first being the root user's
UserNames == << "root", "alice", "bob" >>

\* submissions a client may send (valid and invalid references)
Submissions == [user_id : {0, 9}, contest_id : {0}, problem_id : {0, 9}, language : {"py", "xx"}]

NoSubmission == [user_id |-> 0, contest_id |-> 0, problem_id |-> 0, language |-> ""]

\* ------------------------------------------------------------------ records
NoJob ==
    [id |-> 0, created_time |-> 0, updated_time |-> 0, state |-> "none", result |-> "none",
     score |-> 0, submission |-> NoSubmission, cases |-> << >>]

NoMsg == [job_id |-> 0, kind |-> "none", responder |-> 0]

NoResponse == [op |-> "none", id |-> 0, status |-> 0, code |-> 0, body |-> NoJob]

IdleHandler ==
    [pc |-> "idle", op |-> "none", id |-> 0, submission |-> NoSubmission, cases_count |-> 0, now |-> 0]

IdleWorker == [pc |-> "pop", msg |-> NoMsg, job |-> NoJob, now |-> 0]

NoChannel == [st |-> "none", val |-> NoJob]

\* no query parameters, no user request body
NoQuery == [op |-> "none"]

\* a text is a sequence of characters
NoText == << >>

\* a Notify nobody waits on: no stored permit, no registered waiter, no
\* waiter notified and not yet polled
NoNotify == [permit |-> FALSE, waiters |-> << >>, notified |-> {}]

VARIABLES jobs, queue, workers, handlers, chan, response, blocking, requests, clock, token,
          users, query, program_output, expected_output, is_correct, notify

vars == << jobs, queue, workers, handlers, chan, response, blocking, requests, clock, token,
           users, query, program_output, expected_output, is_correct, notify >>

\* what the job pipeline (POST, PUT, DELETE /jobs and the workers) never
\* writes: the users table, the parameters of the last request to the other
\* endpoints, the texts and the verdict of an output comparison, and the
\* state of the queue's notifier, which these steps leave out (a pop is one
\* step that takes the head of a queue that is not empty)
elsewhere == << users, query, program_output, expected_output, is_correct, notify >>

\* the persisted row (with its case rows) of job id
Row(id) == jobs[id + 1]

Exists(id) == id + 1 \in DOMAIN jobs

IsBlocking(m) == m.kind = "Blocking"

\* ------------------------------------------------------------ persistence
WaitingCase(i) == [id |-> i, result |-> "Waiting", time |-> 0, memory |-> 0, info |-> ""]

\* mutant: the loop over the case rows starts at 1 (no row for the compile case)
create_job_from_case_1(body, len, now) ==
    Append(jobs, [id |-> Len(jobs), created_time |-> now, updated_time |-> now,
                  state |-> "Queueing", result |-> "Waiting", score |-> 0,
                  submission |-> body, cases |-> [i \in 1..(len - 1) |-> WaitingCase(i)]])

\* mutant: the id returned and stored is the primary key itself
create_job_id_is_pk(body, len, now) ==
    Append(jobs, [id |-> Len(jobs) + 1, created_time |-> now, updated_time |-> now,
                  state |-> "Queueing", result |-> "Waiting", score |-> 0,
                  submission |-> body, cases |-> [i \in 1..len |-> WaitingCase(i - 1)]])

\* database.rs create_job: one job row and len case rows, id = pk - 1
create_job(body, len, now) ==
    Append(jobs, [id |-> Len(jobs), created_time |-> now, updated_time |-> now,
                  state |-> "Queueing", result |-> "Waiting", score |-> 0,
                  submission |-> body, cases |-> [i \in 1..len |-> WaitingCase(i - 1)]])

find_job(id) == Exists(id)

\* mutant: the lookup reports every user id as present
find_user_any(id) == TRUE

find_user(id) == \E u \in users : u.id = id

\* database.rs fetch_job, first query: the job row (cases not yet read)
fetch_job_row(id) == [Row(id) EXCEPT !.cases = << >>]

\* database.rs fetch_job, second query: the case rows ordered by case_index
fetch_job_cases(id) == Row(id).cases

\* mutant: the UPDATE of the job row leaves the state column alone
update_job_to_running_keeps_state(id, now) ==
    [jobs EXCEPT ![id + 1] =
        [@ EXCEPT !.result = "Running", !.updated_time = now,
                  !.cases = [i \in DOMAIN @ |->
                                IF @[i].id = 0 THEN [@[i] EXCEPT !.result = "Running"] ELSE @[i]]]]

update_job_to_running(id, now) ==
    [jobs EXCEPT ![id + 1] =
        [@ EXCEPT !.state = "Running", !.result = "Running", !.updated_time = now,
                  !.cases = [i \in DOMAIN @ |->
                                IF @[i].id = 0 THEN [@[i] EXCEPT !.result = "Running"] ELSE @[i]]]]

update_job_to_canceled(id, now) ==
    [jobs EXCEPT ![id + 1] =
        [@ EXCEPT !.state = "Canceled", !.result = "Skipped", !.updated_time = now,
                  !.cases = [i \in DOMAIN @ |-> [@[i] EXCEPT !.result = "Skipped"]]]]

\* mutant: the UPDATE of the job row does not reset the score
revert_job_to_queueing_keeps_score(id, now) ==
    [jobs EXCEPT ![id + 1] =
        [@ EXCEPT !.state = "Queueing", !.result = "Waiting", !.updated_time = now,
                  !.cases = [i \in DOMAIN @ |->
                                [@[i] EXCEPT !.result = "Waiting", !.time = 0, !.memory = 0, !.info = ""]]]]

revert_job_to_queueing(id, now) ==
    [jobs EXCEPT ![id + 1] =
        [@ EXCEPT !.state = "Queueing", !.result = "Waiting", !.score = 0, !.updated_time = now,
                  !.cases = [i \in DOMAIN @ |->
                                [@[i] EXCEPT !.result = "Waiting", !.time = 0, !.memory = 0, !.info = ""]]]]

\* rows_affected of the job_case UPDATE in revert_job_to_queueing
reverted_cases(id) == Len(Row(id).cases)

\* mutant: the UPDATE of the job row leaves the state column alone
save_result_keeps_state(id, result, now) ==
    [jobs EXCEPT ![id + 1] =
        [@ EXCEPT !.result = result.result, !.score = result.score,
                  !.updated_time = now,
                  !.cases = result.cases]]

\* mutant: the case rows are left as they were
save_result_keeps_cases(id, result, now) ==
    [jobs EXCEPT ![id + 1] =
        [@ EXCEPT !.state = result.state, !.result = result.result, !.score = result.score,
                  !.updated_time = now]]

\* database.rs save_result: job row updated, case rows deleted and re-inserted
save_result(id, result, now) ==
    [jobs EXCEPT ![id + 1] =
        [@ EXCEPT !.state = result.state, !.result = result.result, !.score = result.score,
                  !.updated_time = now,
                  !.cases = result.cases]]

\* -------------------------------------------------------------------- queue
\* mutant: the message is put at the front of the deque
push_front(job) == << job >> \o queue

push(job) == Append(queue, job)

\* mutant: the head is read but left in the deque
pop_front_peek(q) == q

\* what pop_front leaves in the deque
pop_front(q) == Tail(q)

cancel_job(job_id) == SelectSeq(queue, LAMBDA j : j.job_id # job_id)

\* mutant: the removed messages' senders are kept alive
DroppedResponders_kept(job_id) == {}

\* responders of the Blocking messages that cancel_job drops
DroppedResponders(job_id) ==
    {queue[i].responder : i \in {k \in DOMAIN queue : queue[k].job_id = job_id /\ IsBlocking(queue[k])}}

\* ------------------------------------------------------------ sandbox runner
\* What the external compile step can report: captured output, elapsed time,
\* memory, and whether it succeeded (zero status and executable present).
CompileOutcomes ==
    { [success |-> TRUE, time |-> 1, memory |-> 1, info |-> ""],
      [success |-> FALSE, time |-> 1, memory |-> 1, info |-> "cc: error"] }

\* What one execution of ./main can report (TestCaseResult plus the verdict of
\* check_output_correctness when there is no error).
TestOutcomes ==
    { [error |-> "", correct |-> TRUE, time |-> 1, memory |-> 1, info |-> ""],
      [error |-> "", correct |-> FALSE, time |-> 1, memory |-> 1, info |-> ""],
      [error |-> "Time Limit Exceeded", correct |-> FALSE, time |-> 2, memory |-> 1, info |-> "timeout"] }

RunOutcomes ==
    { [compile |-> c, tests |-> t] :
        c \in CompileOutcomes, t \in [1..NumCases -> TestOutcomes] }

\* mutant: a failed compilation does not record case 0's result
compile_source_code_case0_unset(job, c) ==
    LET case0 == [job.cases[1] EXCEPT !.info = c.info, !.time = c.time, !.memory = c.memory]
    IN  IF ~c.success
        THEN [job EXCEPT !.cases[1] = case0,
                         !.result = "Compilation Error",
                         !.state = "Finished"]
        ELSE [job EXCEPT !.cases[1] = [case0 EXCEPT !.result = "Compilation Success"]]

\* compile_source_code / process_compilation_results: bookkeeping on case 0
compile_source_code(job, c) ==
    LET case0 == [job.cases[1] EXCEPT !.info = c.info, !.time = c.time, !.memory = c.memory]
    IN  IF ~c.success
        THEN [job EXCEPT !.cases[1] = [case0 EXCEPT !.result = "Compilation Error"],
                         !.result = "Compilation Error",
                         !.state = "Finished"]
        ELSE [job EXCEPT !.cases[1] = [case0 EXCEPT !.result = "Compilation Success"]]

\* mutant: the job-level candidate is the error recorded last
first_error_or_last(first_error, error) == error

\* first_error.or(Some(error))
first_error_or(first_error, error) == IF first_error = "" THEN error ELSE first_error

\* run_test_cases: the loop over problem.cases from position idx on, with the
\* running total_score and first_error, then the final assignments
RECURSIVE run_test_cases_from(_, _, _, _, _, _)
run_test_cases_from(job, problem, tests, idx, total_score, first_error) ==
    IF idx > Len(problem.cases)
    THEN [job EXCEPT !.score = total_score,
                     !.result = IF first_error = "" THEN "Accepted" ELSE first_error,
                     !.state = "Finished"]
    ELSE LET t == tests[idx]
             case_idx == idx + 1
             measured == [job.cases[case_idx] EXCEPT !.time = t.time, !.memory = t.memory]
         IN  IF t.error # ""
             THEN run_test_cases_from(
                      [job EXCEPT !.cases[case_idx] = [measured EXCEPT !.result = t.error, !.info = t.info]],
                      problem, tests, idx + 1, total_score, first_error_or(first_error, t.error))
             ELSE IF t.correct
             THEN run_test_cases_from(
                      [job EXCEPT !.cases[case_idx] = [measured EXCEPT !.result = "Accepted"]],
                      problem, tests, idx + 1, total_score + problem.cases[idx].score, first_error)
             ELSE run_test_cases_from(
                      [job EXCEPT !.cases[case_idx] = [measured EXCEPT !.result = "Wrong Answer"]],
                      problem, tests, idx + 1, total_score, first_error_or(first_error, "Wrong Answer"))

run_test_cases(job, problem, tests) == run_test_cases_from(job, problem, tests, 1, 0, "")

\* SandboxRunner::run when it returns Ok(job)
run(job, problem, outcome) ==
    LET compiled == compile_source_code(job, outcome.compile)
    IN  IF ~outcome.compile.success THEN compiled
        ELSE run_test_cases(compiled, problem, outcome.tests)

\* worker.rs: problems.iter().find(|p| p.id == job.submission.problem_id)
problem_config(job) == CHOOSE p \in {problems[i] : i \in DOMAIN problems} : p.id = job.submission.problem_id

\* create_timestamp: Utc::now(), a clock that does not run backwards; the
\* values a call can return, the clock having advanced or not since the last
create_timestamp == {t \in clock..(clock + 1) : t <= MaxClock}

\* ----------------------------------------------------------------- initial
\* the server after start-up on an empty database
Started ==
    /\ jobs = << >>
    /\ queue = << >>
    /\ workers = [w \in Workers |-> IdleWorker]
    /\ handlers = [h \in Handlers |-> IdleHandler]
    /\ chan = [h \in Handlers |-> NoChannel]
    /\ response = NoResponse
    /\ blocking \in BOOLEAN
    /\ requests = 0
    /\ token = FALSE
    /\ users = {RootUser}
    /\ query = NoQuery
    /\ program_output = NoText
    /\ expected_output = NoText
    /\ is_correct = FALSE
    /\ notify = NoNotify

\* Runs that fit within one tick of the millisecond clock: every timestamp
\* taken is the same.  No guard of the program reads a timestamp, so these
\* runs show every behaviour of the other state.
Init == Started /\ clock = MaxClock

\* Runs during which the clock advances.
ClockInit == Started /\ clock = 0

\* an HTTP response: its status, the error code of its body (0 when the body
\* is not an error) and the job record of its body (NoJob when it has none)
Respond(op, id, status, code, body) ==
    [op |-> op, id |-> id, status |-> status, code |-> code, body |-> body]

\* dropping the oneshot senders of a set of handlers: their receivers see an error
DropResponders(hs) == [h \in Handlers |-> IF h \in hs /\ chan[h].st = "open" THEN [chan[h] EXCEPT !.st = "closed"] ELSE chan[h]]

\* mutant: the responder of a popped message outlives the iteration
DropMessage_kept(m) == chan

\* dropping a popped message at the end of a worker iteration
DropMessage(m) == IF IsBlocking(m) THEN DropResponders({m.responder}) ELSE chan

\* ------------------------------------------------------------- POST /jobs
\* post_job_handler up to a failed validation: unknown language, problem or user
PostJobNotFound(h, body) ==
    /\ handlers[h].pc = "idle"
    /\ requests < MaxRequests /\ ~token
    /\ requests' = requests + 1
    /\ \/ ~(\E i \in DOMAIN languages : languages[i].name = body.language)
       \/ ~(\E i \in DOMAIN problems : problems[i].id = body.problem_id)
       \/ ~find_user(body.user_id)
    /\ response' = Respond("POST", 0, 404, 3, NoJob)
    /\ UNCHANGED << jobs, queue, workers, handlers, chan, blocking, clock, token >>
    /\ UNCHANGED elsewhere

\* post_job_handler: validation passed, create_job committed
PostJob(h, body) ==
    /\ handlers[h].pc = "idle"
    /\ requests < MaxRequests /\ ~token
    /\ requests' = requests + 1
    /\ \E i \in DOMAIN languages : languages[i].name = body.language
    /\ \E i \in DOMAIN problems : problems[i].id = body.problem_id
    /\ find_user(body.user_id)
    /\ Len(jobs) < MaxJobs
    /\ LET problem == CHOOSE p \in {problems[i] : i \in DOMAIN problems} : p.id = body.problem_id
           total_cases == 1 + Len(problem.cases)
       IN  /\ \E now \in create_timestamp :
                  /\ clock' = now
                  /\ jobs' = create_job(body, total_cases, now)
           /\ handlers' = [handlers EXCEPT ![h] =
                  [pc |-> "push", op |-> "POST", id |-> jobs'[Len(jobs')].id, submission |-> body,
                   cases_count |-> Len(problem.cases), now |-> 0]]
    /\ response' = NoResponse
    /\ UNCHANGED << queue, workers, chan, blocking, token >>
    /\ UNCHANGED elsewhere

\* the record handle_job_submission synthesizes in non-blocking mode
SynthesizedRecord(job_id, submission, cases_count, now) ==
    [id |-> job_id, created_time |-> now, updated_time |-> now, state |-> "Queueing", result |-> "Waiting", score |-> 0,
     submission |-> submission,
     cases |-> [i \in 1..(cases_count + 1) |-> WaitingCase(i - 1)]]

\* handle_job_submission up to the push (and, non-blocking, the reply)
HandleJobSubmission(h) ==
    /\ handlers[h].pc = "push"
    /\ Len(queue) < MaxQueue
    /\ IF blocking
       THEN /\ queue' = push([job_id |-> handlers[h].id, kind |-> "Blocking", responder |-> h])
            /\ chan' = [chan EXCEPT ![h] = [st |-> "open", val |-> NoJob]]
            /\ handlers' = [handlers EXCEPT ![h].pc = "await"]
            /\ response' = NoResponse
            /\ clock' = clock
       ELSE /\ queue' = push([job_id |-> handlers[h].id, kind |-> "FireAndForget", responder |-> 0])
            /\ chan' = chan
            /\ handlers' = [handlers EXCEPT ![h] = IdleHandler]
            /\ \E now \in create_timestamp :
                  /\ clock' = now
                  /\ response' = Respond(handlers[h].op, handlers[h].id, 200, 0,
                                         SynthesizedRecord(handlers[h].id, handlers[h].submission,
                                                           handlers[h].cases_count, now))
    /\ UNCHANGED << jobs, workers, blocking, requests, token >>
    /\ UNCHANGED elsewhere

\* mutant: the receiver yields an empty record instead of the one sent
rx_await_empty(c) == [ok |-> c.st = "sent", val |-> NoJob]

\* what rx.await yields once the sender was used (Ok(record)) or dropped (Err)
rx_await(c) == [ok |-> c.st = "sent", val |-> IF c.st = "sent" THEN c.val ELSE NoJob]

\* handle_job_submission, blocking: rx.await completes
AwaitReply(h) ==
    /\ handlers[h].pc = "await"
    /\ chan[h].st \in {"sent", "closed"}
    /\ response' = IF rx_await(chan[h]).ok
                   THEN Respond(handlers[h].op, handlers[h].id, 200, 0, rx_await(chan[h]).val)
                   ELSE Respond(handlers[h].op, handlers[h].id, 500, 6, NoJob)
    /\ chan' = [chan EXCEPT ![h] = NoChannel]
    /\ handlers' = [handlers EXCEPT ![h] = IdleHandler]
    /\ UNCHANGED << jobs, queue, workers, blocking, requests, clock, token >>
    /\ UNCHANGED elsewhere

\* -------------------------------------------------------- PUT /jobs/{id}
\* mutant: the guard rejects only a Queueing job
put_accepts_unless_queueing(record) == record.state # "Queueing"

\* put_job_handler: the guard of the first match arm
put_accepts(record) == record.state = "Finished" \/ record.state = "Canceled"

\* put_job_handler: fetch_job and the match on its result
PutJob(h, job_id) ==
    /\ handlers[h].pc = "idle"
    /\ requests < MaxRequests /\ ~token
    /\ requests' = requests + 1
    /\ IF ~Exists(job_id)
       THEN /\ response' = Respond("PUT", job_id, 404, 3, NoJob)
            /\ handlers' = handlers
            /\ clock' = clock
       ELSE IF put_accepts(Row(job_id))
       THEN /\ response' = NoResponse
            /\ \E now \in create_timestamp :
                  /\ clock' = now
                  /\ handlers' = [handlers EXCEPT ![h] =
                         [pc |-> "revert", op |-> "PUT", id |-> job_id,
                          submission |-> Row(job_id).submission, cases_count |-> 0, now |-> now]]
       ELSE /\ response' = Respond("PUT", job_id, 400, 2, NoJob)
            /\ handlers' = handlers
            /\ clock' = clock
    /\ UNCHANGED << jobs, queue, workers, chan, blocking, token >>
    /\ UNCHANGED elsewhere

\* put_job_handler: revert_job_to_queueing committed, its row count kept
PutRevert(h) ==
    /\ handlers[h].pc = "revert"
    /\ jobs' = revert_job_to_queueing(handlers[h].id, handlers[h].now)
    /\ handlers' = [handlers EXCEPT ![h].pc = "push", ![h].now = 0,
                                    ![h].cases_count = reverted_cases(handlers[h].id)]
    /\ response' = NoResponse
    /\ UNCHANGED << queue, workers, chan, blocking, requests, clock, token >>
    /\ UNCHANGED elsewhere

\* ----------------------------------------------------- DELETE /jobs/{id}
\* delete_job_handler: job_queue.cancel_job(job_id)
DeleteJob(h, job_id) ==
    /\ handlers[h].pc = "idle"
    /\ requests < MaxRequests /\ ~token
    /\ requests' = requests + 1
    /\ queue' = cancel_job(job_id)
    /\ chan' = DropResponders(DroppedResponders(job_id))
    /\ IF Len(queue) # Len(queue')
       THEN \E now \in create_timestamp :
              /\ clock' = now
              /\ handlers' = [handlers EXCEPT ![h] =
                     [pc |-> "update_job_to_canceled", op |-> "DELETE", id |-> job_id,
                      submission |-> NoSubmission, cases_count |-> 0, now |-> now]]
       ELSE /\ clock' = clock
            /\ handlers' = [handlers EXCEPT ![h] =
                   [pc |-> "find_job", op |-> "DELETE", id |-> job_id,
                    submission |-> NoSubmission, cases_count |-> 0, now |-> 0]]
    /\ response' = NoResponse
    /\ UNCHANGED << jobs, workers, blocking, token >>
    /\ UNCHANGED elsewhere

\* delete_job_handler: a message was removed, update_job_to_canceled committed
DeleteCanceled(h) ==
    /\ handlers[h].pc = "update_job_to_canceled"
    /\ jobs' = update_job_to_canceled(handlers[h].id, handlers[h].now)
    /\ response' = Respond("DELETE", handlers[h].id, 200, 0, NoJob)
    /\ handlers' = [handlers EXCEPT ![h] = IdleHandler]
    /\ UNCHANGED << queue, workers, chan, blocking, requests, clock, token >>
    /\ UNCHANGED elsewhere

\* delete_job_handler: nothing was removed, find_job decides the error
DeleteNotQueued(h) ==
    /\ handlers[h].pc = "find_job"
    /\ response' = IF find_job(handlers[h].id)
                   THEN Respond("DELETE", handlers[h].id, 400, 2, NoJob)
                   ELSE Respond("DELETE", handlers[h].id, 404, 3, NoJob)
    /\ handlers' = [handlers EXCEPT ![h] = IdleHandler]
    /\ UNCHANGED << jobs, queue, workers, chan, blocking, requests, clock, token >>
    /\ UNCHANGED elsewhere

\* ------------------------------------------------------------------ worker
\* queue.pop() returns the head message
WorkerPop(w) ==
    /\ workers[w].pc = "pop"
    /\ queue # << >>
    /\ workers' = [workers EXCEPT ![w] =
           [pc |-> "fetch_job", msg |-> Head(queue), job |-> NoJob, now |-> 0]]
    /\ queue' = pop_front(queue)
    /\ response' = NoResponse
    /\ UNCHANGED << jobs, handlers, chan, blocking, requests, clock, token >>
    /\ UNCHANGED elsewhere

\* db::fetch_job, the SELECT on jobs
WorkerFetchJob(w) ==
    /\ workers[w].pc = "fetch_job"
    /\ workers' = [workers EXCEPT ![w].pc = "fetch_cases",
                                  ![w].job = fetch_job_row(workers[w].msg.job_id)]
    /\ response' = NoResponse
    /\ UNCHANGED << jobs, queue, handlers, chan, blocking, requests, clock, token >>
    /\ UNCHANGED elsewhere

\* db::fetch_job, the SELECT on job_case; update_job_to_running takes its
\* timestamp before it waits for the connection
WorkerFetchCases(w) ==
    /\ workers[w].pc = "fetch_cases"
    /\ \E now \in create_timestamp :
          /\ clock' = now
          /\ workers' = [workers EXCEPT ![w].pc = "update_job_to_running",
                                        ![w].job.cases = fetch_job_cases(workers[w].msg.job_id),
                                        ![w].now = now]
    /\ response' = NoResponse
    /\ UNCHANGED << jobs, queue, handlers, chan, blocking, requests, token >>
    /\ UNCHANGED elsewhere

\* db::update_job_to_running committed, then the config lookups
WorkerRunning(w) ==
    /\ workers[w].pc = "update_job_to_running"
    /\ jobs' = update_job_to_running(workers[w].msg.job_id, workers[w].now)
    /\ IF /\ \E i \in DOMAIN problems : problems[i].id = workers[w].job.submission.problem_id
          /\ \E i \in DOMAIN languages : languages[i].name = workers[w].job.submission.language
       THEN /\ workers' = [workers EXCEPT ![w].pc = "run", ![w].now = 0]
            /\ chan' = chan
       ELSE /\ workers' = [workers EXCEPT ![w] = IdleWorker]
            /\ chan' = DropMessage(workers[w].msg)
    /\ response' = NoResponse
    /\ UNCHANGED << queue, handlers, blocking, requests, clock, token >>
    /\ UNCHANGED elsewhere

\* the blocking task returned Ok(Ok(job_result)); db::save_result committed
WorkerSaveResult(w, outcome) ==
    /\ workers[w].pc = "run"
    /\ LET job_result == run(workers[w].job, problem_config(workers[w].job), outcome)
       IN  /\ \E now \in create_timestamp :
                  /\ clock' = now
                  /\ jobs' = save_result(workers[w].msg.job_id, job_result, now)
           /\ workers' = [workers EXCEPT ![w] =
                  IF IsBlocking(workers[w].msg)
                  THEN [pc |-> "send", msg |-> workers[w].msg, job |-> job_result, now |-> 0]
                  ELSE IdleWorker]
    /\ response' = NoResponse
    /\ UNCHANGED << queue, handlers, chan, blocking, requests, token >>
    /\ UNCHANGED elsewhere

\* the blocking task returned an error or panicked: logged, nothing saved
WorkerRunFailed(w) ==
    /\ workers[w].pc = "run"
    /\ workers' = [workers EXCEPT ![w] = IdleWorker]
    /\ chan' = DropMessage(workers[w].msg)
    /\ response' = NoResponse
    /\ UNCHANGED << jobs, queue, handlers, blocking, requests, clock, token >>
    /\ UNCHANGED elsewhere

\* select! finds token.cancelled() ready (whether or not a message is pending,
\* when that branch is the one polled first): the worker leaves its loop
WorkerExit(w) ==
    /\ workers[w].pc = "pop"
    /\ token
    /\ workers' = [workers EXCEPT ![w].pc = "exited"]
    /\ response' = NoResponse
    /\ UNCHANGED << jobs, queue, handlers, chan, blocking, requests, clock, token >>
    /\ UNCHANGED elsewhere

\* main: ctrl-c received, the HTTP server stopped gracefully (no request in
\* flight, none accepted any more), then shutdown_token.cancel()
Shutdown ==
    /\ ~token
    /\ \A h \in Handlers : handlers[h].pc = "idle"
    /\ token' = TRUE
    /\ response' = NoResponse
    /\ UNCHANGED << jobs, queue, workers, handlers, chan, blocking, requests, clock >>
    /\ UNCHANGED elsewhere

\* responder.send(job_result) for a Blocking message
WorkerSend(w) ==
    /\ workers[w].pc = "send"
    /\ chan' = [chan EXCEPT ![workers[w].msg.responder] = [st |-> "sent", val |-> workers[w].job]]
    /\ workers' = [workers EXCEPT ![w] = IdleWorker]
    /\ response' = NoResponse
    /\ UNCHANGED << jobs, queue, handlers, blocking, requests, clock, token >>
    /\ UNCHANGED elsewhere

\* ------------------------------------------------------------ specification
Next ==
    \/ \E h \in Handlers, body \in Submissions : PostJobNotFound(h, body)
    \/ \E h \in Handlers, body \in Submissions : PostJob(h, body)
    \/ \E h \in Handlers : HandleJobSubmission(h)
    \/ \E h \in Handlers : AwaitReply(h)
    \/ \E h \in Handlers, job_id \in 0..MaxJobs : PutJob(h, job_id)
    \/ \E h \in Handlers : PutRevert(h)
    \/ \E h \in Handlers, job_id \in 0..MaxJobs : DeleteJob(h, job_id)
    \/ \E h \in Handlers : DeleteCanceled(h)
    \/ \E h \in Handlers : DeleteNotQueued(h)
    \/ \E w \in Workers : WorkerPop(w)
    \/ \E w \in Workers : WorkerFetchJob(w)
    \/ \E w \in Workers : WorkerFetchCases(w)
    \/ \E w \in Workers : WorkerRunning(w)
    \/ \E w \in Workers, outcome \in RunOutcomes : WorkerSaveResult(w, outcome)
    \/ \E w \in Workers : WorkerRunFailed(w)
    \/ \E w \in Workers : WorkerSend(w)
    \/ \E w \in Workers : WorkerExit(w)
    \/ Shutdown

Spec == Init /\ [][Next]_vars

\* The receiver of a oneshot channel is woken when its sender is used or
\* dropped, and the runtime polls a woken task: a handler whose rx.await can
\* complete does complete.
\* the same system observed while the clock advances
ClockSpec == ClockInit /\ [][Next]_vars

FairSpec == Spec /\ \A h \in Handlers : WF_vars(AwaitReply(h))

\* The server while it is not shut down and the sandbox runner returns a
\* record for every job: the same steps without the shutdown and the
\* runner-failure branches.
LiveNext ==
    \/ \E h \in Handlers, body \in Submissions : PostJobNotFound(h, body)
    \/ \E h \in Handlers, body \in Submissions : PostJob(h, body)
    \/ \E h \in Handlers : HandleJobSubmission(h)
    \/ \E h \in Handlers : AwaitReply(h)
    \/ \E h \in Handlers, job_id \in 0..MaxJobs : PutJob(h, job_id)
    \/ \E h \in Handlers : PutRevert(h)
    \/ \E h \in Handlers, job_id \in 0..MaxJobs : DeleteJob(h, job_id)
    \/ \E h \in Handlers : DeleteCanceled(h)
    \/ \E h \in Handlers : DeleteNotQueued(h)
    \/ \E w \in Workers : WorkerPop(w)
    \/ \E w \in Workers : WorkerFetchJob(w)
    \/ \E w \in Workers : WorkerFetchCases(w)
    \/ \E w \in Workers : WorkerRunning(w)
    \/ \E w \in Workers, outcome \in RunOutcomes : WorkerSaveResult(w, outcome)
    \/ \E w \in Workers : WorkerSend(w)

\* one iteration step of worker w: the task is polled whenever it can proceed
\* (a push wakes a waiting pop through notify_one)
WorkerStep(w) ==
    \/ WorkerPop(w)
    \/ WorkerFetchJob(w)
    \/ WorkerFetchCases(w)
    \/ WorkerRunning(w)
    \/ \E outcome \in RunOutcomes : WorkerSaveResult(w, outcome)
    \/ WorkerSend(w)

\* a request handler past its first database call runs to its response
HandlerStep(h) ==
    \/ HandleJobSubmission(h)
    \/ AwaitReply(h)
    \/ PutRevert(h)
    \/ DeleteCanceled(h)
    \/ DeleteNotQueued(h)

\* the tokio runtime polls every task that can make progress
LiveSpec ==
    /\ Init
    /\ [][LiveNext]_vars
    /\ \A w \in Workers : WF_vars(WorkerStep(w))
    /\ \A h \in Handlers : WF_vars(HandlerStep(h))

\* ---------------------------------------------------------------- ranklist
\* an absent optional query parameter
None == "<none>"

\* the configured problems of a contest with two problems, for the ranklist
contest_problems == << [id |-> 1], [id |-> 0] >>

\* std::cmp::Ordering as -1 (Less), 0 (Equal), 1 (Greater)
cmp(a, b) == IF a < b THEN -1 ELSE IF a > b THEN 1 ELSE 0

then_with(ordering, other) == IF ordering # 0 THEN ordering ELSE other

\* a Vec<u32> sorted ascending, from the set of its elements
RECURSIVE sort(_)
sort(ids) ==
    IF ids = {} THEN << >>
    ELSE LET least == CHOOSE i \in ids : \A k \in ids : i <= k
         IN  << least >> \o sort(ids \ {least})

\* database.rs get_users: SELECT id, name FROM users ORDER BY id
get_users == LET ids == sort({u.id : u \in users})
             IN  [i \in DOMAIN ids |-> CHOOSE u \in users : u.id = ids[i]]

\* rows in the order of ORDER BY created_time (rows of equal created_time in
\* the order of the table scan, that is by id)
RECURSIVE order_by_created_time(_)
order_by_created_time(rows) ==
    IF rows = << >> THEN << >>
    ELSE LET first == CHOOSE i \in DOMAIN rows :
                          /\ \A k \in DOMAIN rows : rows[i].created_time <= rows[k].created_time
                          /\ \A k \in 1..(i - 1) : rows[k].created_time > rows[i].created_time
         IN  << rows[first] >>
                 \o order_by_created_time([k \in 1..(Len(rows) - 1) |->
                                              IF k < first THEN rows[k] ELSE rows[k + 1]])

\* database.rs get_user_jobs: every job of the user, whatever its state
get_user_jobs(user_id) ==
    SelectSeq(order_by_created_time(jobs), LAMBDA job : job.submission.user_id = user_id)

\* the closures given to max_by_key and max_by
\* mutant: under highest, equal scores are ordered by later created_time
job_compare_later(scoring_rule, a, b) ==
    IF scoring_rule = "latest"
    THEN cmp(a.created_time, b.created_time)
    ELSE then_with(cmp(a.score, b.score), cmp(a.created_time, b.created_time))

job_compare(scoring_rule, a, b) ==
    IF scoring_rule = "latest"
    THEN cmp(a.created_time, b.created_time)
    ELSE then_with(cmp(a.score, b.score), cmp(b.created_time, a.created_time))

\* Iterator::max_by: a fold that keeps the accumulated element only when it
\* compares Greater than the next one (the last maximum wins)
RECURSIVE max_by(_, _, _, _)
max_by(problem_jobs, scoring_rule, i, best) ==
    IF i > Len(problem_jobs) THEN best
    ELSE max_by(problem_jobs, scoring_rule, i + 1,
                IF job_compare(scoring_rule, best, problem_jobs[i]) = 1
                THEN best ELSE problem_jobs[i])

\* get_global_ranklist: the job used for scoring a problem (problem_jobs not empty)
chosen_job(problem_jobs, scoring_rule) == max_by(problem_jobs, scoring_rule, 2, problem_jobs[1])

\* Option<String> of a timestamp: None is NoTime
NoTime == -1

\* get_global_ranklist: the loop over problem_ids from position i on, with the
\* problem_scores and latest_submission_time so far
RECURSIVE score_problems(_, _, _, _, _, _)
score_problems(user_jobs, problem_ids, scoring_rule, i, problem_scores, latest_submission_time) ==
    IF i > Len(problem_ids)
    THEN [problem_scores |-> problem_scores, latest_submission_time |-> latest_submission_time]
    ELSE LET problem_jobs == SelectSeq(user_jobs, LAMBDA job : job.submission.problem_id = problem_ids[i])
         IN  IF problem_jobs = << >>
             THEN score_problems(user_jobs, problem_ids, scoring_rule, i + 1,
                                 problem_scores, latest_submission_time)
             ELSE LET job == chosen_job(problem_jobs, scoring_rule)
                  IN  score_problems(user_jobs, problem_ids, scoring_rule, i + 1,
                                     [problem_scores EXCEPT ![problem_ids[i]] = job.score],
                                     IF latest_submission_time = NoTime
                                            \/ latest_submission_time < job.created_time
                                     THEN job.created_time ELSE latest_submission_time)

\* problem_scores.values().sum()
RECURSIVE sum_scores(_, _)
sum_scores(problem_scores, ids) ==
    IF ids = {} THEN 0
    ELSE LET id == CHOOSE i \in ids : TRUE
         IN  problem_scores[id] + sum_scores(problem_scores, ids \ {id})

\* get_global_ranklist: the UserScore of one user
user_score(user, user_jobs, problem_ids, scoring_rule) ==
    LET ids == {problem_ids[i] : i \in DOMAIN problem_ids}
        scored == score_problems(user_jobs, problem_ids, scoring_rule, 1,
                                 [id \in ids |-> 0], NoTime)
    IN  [user_id |-> user.id, user_name |-> user.name,
         problem_scores |-> scored.problem_scores,
         total_score |-> sum_scores(scored.problem_scores, ids),
         latest_submission_time |-> scored.latest_submission_time,
         submission_count |-> Len(user_jobs)]

\* the closure given to sort_unstable_by
\* mutant: under submission_time the later time comes first
user_compare_later_first(tie_breaker, a, b) ==
    LET by_score == cmp(b.total_score, a.total_score)
    IN  IF by_score # 0 THEN by_score
        ELSE IF tie_breaker = "submission_time"
        THEN IF a.latest_submission_time # NoTime /\ b.latest_submission_time # NoTime
             THEN cmp(b.latest_submission_time, a.latest_submission_time)
             ELSE IF a.latest_submission_time # NoTime THEN -1
             ELSE IF b.latest_submission_time # NoTime THEN 1
             ELSE 0
        ELSE IF tie_breaker = "submission_count"
        THEN cmp(a.submission_count, b.submission_count)
        ELSE IF tie_breaker = "user_id"
        THEN cmp(a.user_id, b.user_id)
        ELSE 0

user_compare(tie_breaker, a, b) ==
    LET by_score == cmp(b.total_score, a.total_score)
    IN  IF by_score # 0 THEN by_score
        ELSE IF tie_breaker = "submission_time"
        THEN IF a.latest_submission_time # NoTime /\ b.latest_submission_time # NoTime
             THEN cmp(a.latest_submission_time, b.latest_submission_time)
             ELSE IF a.latest_submission_time # NoTime THEN -1
             ELSE IF b.latest_submission_time # NoTime THEN 1
             ELSE 0
        ELSE IF tie_breaker = "submission_count"
        THEN cmp(a.submission_count, b.submission_count)
        ELSE IF tie_breaker = "user_id"
        THEN cmp(a.user_id, b.user_id)
        ELSE 0

\* slice::sort_unstable_by: the slice sorted under the comparator; the order
\* of elements that compare Equal is not specified, so every sorted
\* arrangement is a possible outcome
sort_unstable_by(user_scores, tie_breaker) ==
    { sorted \in { [i \in DOMAIN user_scores |-> user_scores[p[i]]] :
                       p \in Permutations(DOMAIN user_scores) } :
          \A i \in 1..(Len(sorted) - 1) : user_compare(tie_breaker, sorted[i], sorted[i + 1]) <= 0 }

\* get_global_ranklist: whether the tie between an entry and the previous
\* one is broken
tie_broken(tie_breaker, user, prev_user) ==
    IF tie_breaker = "submission_time"
    THEN IF user.latest_submission_time # NoTime /\ prev_user.latest_submission_time # NoTime
         THEN user.latest_submission_time # prev_user.latest_submission_time
         ELSE IF user.latest_submission_time = NoTime /\ prev_user.latest_submission_time = NoTime
         THEN FALSE
         ELSE TRUE
    ELSE IF tie_breaker = "submission_count"
    THEN user.submission_count # prev_user.submission_count
    ELSE IF tie_breaker = "user_id"
    THEN user.user_id # prev_user.user_id
    ELSE FALSE

\* mutant: the rank is the position in the list
next_rank_by_position(user_scores, tie_breaker, index, current_rank) == index

\* get_global_ranklist: the rank of the entry at position index (1-based
\* here), current_rank being the rank of the previous entry
next_rank(user_scores, tie_breaker, index, current_rank) ==
    IF index = 1 THEN current_rank
    ELSE IF user_scores[index].total_score < user_scores[index - 1].total_score
    THEN index
    ELSE IF tie_broken(tie_breaker, user_scores[index], user_scores[index - 1])
    THEN index
    ELSE current_rank

\* get_global_ranklist: the loop that assigns the ranks and builds the entries
RECURSIVE build_result(_, _, _, _, _, _)
build_result(user_scores, tie_breaker, problem_ids, index, current_rank, result) ==
    IF index > Len(user_scores) THEN result
    ELSE LET rank == next_rank(user_scores, tie_breaker, index, current_rank)
             entry == [user |-> [id |-> user_scores[index].user_id,
                                 name |-> user_scores[index].user_name],
                       rank |-> rank,
                       scores |-> [i \in DOMAIN problem_ids |->
                                       user_scores[index].problem_scores[problem_ids[i]]]]
         IN  build_result(user_scores, tie_breaker, problem_ids, index + 1, rank,
                          Append(result, entry))

\* problem ids of the configuration, sorted
problem_ids_of(config) == sort({config[i].id : i \in DOMAIN config})

\* get_global_ranklist: the loop over the users from position i on, pushing
\* each UserScore
RECURSIVE push_user_scores(_, _, _, _, _)
push_user_scores(loaded, scoring_rule, problem_ids, i, user_scores) ==
    IF i > Len(loaded) THEN user_scores
    ELSE push_user_scores(loaded, scoring_rule, problem_ids, i + 1,
             Append(user_scores,
                    user_score(loaded[i], get_user_jobs(loaded[i].id), problem_ids, scoring_rule)))

\* get_global_ranklist: the UserScore of every user, in get_users order
user_scores_of(scoring_rule, problem_ids) ==
    push_user_scores(get_users, scoring_rule, problem_ids, 1, << >>)

\* database.rs get_global_ranklist: the ranklists it can return
get_global_ranklist(scoring_rule, tie_breaker, config) ==
    LET rule == IF scoring_rule = None THEN "latest" ELSE scoring_rule
        breaker == IF tie_breaker = None THEN "" ELSE tie_breaker
        problem_ids == problem_ids_of(config)
    IN  { build_result(sorted, breaker, problem_ids, 1, 1, << >>) :
              sorted \in sort_unstable_by(user_scores_of(rule, problem_ids), breaker) }

\* the parameters of GET /contests/{contest_id}/ranklist
RanklistQuery(contest_id, scoring_rule, tie_breaker) ==
    [op |-> "ranklist", contest_id |-> contest_id,
     scoring_rule |-> scoring_rule, tie_breaker |-> tie_breaker]

\* get_ranklist_handler: the checks before the computation
ranklist_rejection(q) ==
    IF q.contest_id # 0 THEN [status |-> 404, code |-> 3]
    ELSE IF q.scoring_rule \notin {None, "latest", "highest"} THEN [status |-> 400, code |-> 1]
    ELSE IF q.tie_breaker \notin {None, "submission_time", "submission_count", "user_id"}
    THEN [status |-> 400, code |-> 1]
    ELSE [status |-> 200, code |-> 0]

\* what the job pipeline holds besides the jobs table
pipeline == << queue, workers, handlers, chan, blocking, requests, clock, token, notify >>

\* GET /contests/{contest_id}/ranklist answered with an error
GetRanklistRejected(q) ==
    /\ query = NoQuery
    /\ ranklist_rejection(q).status # 200
    /\ query' = q
    /\ response' = Respond("GET ranklist", q.contest_id, ranklist_rejection(q).status,
                           ranklist_rejection(q).code, << >>)
    /\ UNCHANGED << jobs, users, program_output, expected_output, is_correct >>
    /\ UNCHANGED pipeline

\* GET /contests/0/ranklist answered with the ranklist
GetRanklist(q) ==
    /\ query = NoQuery
    /\ ranklist_rejection(q).status = 200
    /\ query' = q
    /\ \E ranklist \in get_global_ranklist(q.scoring_rule, q.tie_breaker, contest_problems) :
           response' = Respond("GET ranklist", 0, 200, 0, ranklist)
    /\ UNCHANGED << jobs, users, program_output, expected_output, is_correct >>
    /\ UNCHANGED pipeline

\* bounds of the ranklist inputs
MaxRankJobs == 3
MaxRankUsers == 3
MaxRankTime == 1
MaxRankScore == 10

\* a job row as the ranklist reads it: a Queueing job has no score yet
RankJob(id, user_id, problem_id, created_time, judged) ==
    [id |-> id, created_time |-> created_time, updated_time |-> created_time,
     state |-> IF judged.state = "Queueing" THEN "Queueing" ELSE "Finished",
     result |-> IF judged.state = "Queueing" THEN "Waiting" ELSE "Accepted",
     score |-> judged.score,
     submission |-> [user_id |-> user_id, contest_id |-> 0, problem_id |-> problem_id,
                     language |-> "py"],
     cases |-> << >>]

Judged == { [state |-> "Queueing", score |-> 0] }
              \cup { [state |-> "Finished", score |-> s] : s \in {0, MaxRankScore} }

\* queries a client may send
RanklistQueries ==
    { RanklistQuery(0, r, t) : r \in {None, "latest", "highest"},
                               t \in {None, "submission_time", "submission_count", "user_id"} }
        \cup { RanklistQuery(1, None, None), RanklistQuery(0, "best", None),
               RanklistQuery(0, None, "name") }

\* a database holding MaxRankUsers users and up to MaxRankJobs jobs, created
\* at non-decreasing times, before a ranklist request
RankInit ==
    /\ queue = << >>
    /\ workers = [w \in Workers |-> IdleWorker]
    /\ handlers = [h \in Handlers |-> IdleHandler]
    /\ chan = [h \in Handlers |-> NoChannel]
    /\ response = NoResponse
    /\ blocking = FALSE
    /\ requests = 0
    /\ clock = MaxRankTime
    /\ token = FALSE
    /\ query = NoQuery
    /\ program_output = NoText
    /\ expected_output = NoText
    /\ is_correct = FALSE
    /\ notify = NoNotify
    /\ users = { [id |-> i, name |-> UserNames[i + 1]] : i \in 0..(MaxRankUsers - 1) }
    /\ \E n \in 0..MaxRankJobs :
         \E user_id \in [1..n -> 0..(MaxRankUsers - 1)],
            problem_id \in [1..n -> {0, 1}],
            created_time \in [1..n -> 0..MaxRankTime],
            judged \in [1..n -> Judged] :
              /\ \A i \in 1..(n - 1) : created_time[i] <= created_time[i + 1]
              /\ jobs = [i \in 1..n |->
                            RankJob(i - 1, user_id[i], problem_id[i], created_time[i], judged[i])]

RankNext ==
    \/ \E q \in RanklistQueries : GetRanklistRejected(q)
    \/ \E q \in RanklistQueries : GetRanklist(q)

RankSpec == RankInit /\ [][RankNext]_vars

\* ---------------------------------------------------------------- GET /jobs
\* Option<T>: Some(v), and None carried with a value of the same type
Some(v) == [some |-> TRUE, val |-> v]

Absent(v) == [some |-> FALSE, val |-> v]

\* The characters of a timestamp text, by their byte values.  A text stands
\* for "2024-01-01T0h:00:00" followed by a suffix: its first character is the
\* digit h of the local hour, the others are the suffix.
Plus == 43
Minus == 45
Dot == 46
Digit(d) == 48 + d
Zed == 90
Letter == 105

\* create_timestamp: to_rfc3339_opts(SecondsFormat::Millis, true) of the
\* instant t, "...T0t:00:00.000Z"
to_rfc3339_opts(t) == << Digit(t), Dot, Zed >>

\* DateTime::parse_from_rfc3339: the instant of a well-formed text
\* ("...Z", "....000Z", "...+01:00", "...-01:00"), an error otherwise
parse_from_rfc3339(text) ==
    IF Len(text) < 2 \/ text[1] < Digit(0) \/ text[1] > Digit(9)
    THEN [ok |-> FALSE, instant |-> 0]
    ELSE LET hour == text[1] - Digit(0)
             suffix == Tail(text)
         IN  IF suffix = << Zed >> \/ suffix = << Dot, Zed >>
             THEN [ok |-> TRUE, instant |-> hour]
             ELSE IF suffix = << Plus, Digit(1) >> THEN [ok |-> TRUE, instant |-> hour - 1]
             ELSE IF suffix = << Minus, Digit(1) >> THEN [ok |-> TRUE, instant |-> hour + 1]
             ELSE [ok |-> FALSE, instant |-> 0]

\* comparison of two TEXT values in SQLite (BINARY collation), and of two
\* Strings in Rust: byte by byte, a proper prefix being smaller
RECURSIVE text_cmp(_, _)
text_cmp(a, b) ==
    IF a = << >> /\ b = << >> THEN 0
    ELSE IF a = << >> THEN -1
    ELSE IF b = << >> THEN 1
    ELSE IF Head(a) # Head(b) THEN cmp(Head(a), Head(b))
    ELSE text_cmp(Tail(a), Tail(b))

\* fetch_jobs_by_query: the WHERE clause built from the parameters present
where(job, q) ==
    /\ q.user_id.some => job.submission.user_id = q.user_id.val
    /\ q.user_name.some =>
           job.submission.user_id \in { u.id : u \in { v \in users : v.name = q.user_name.val } }
    /\ q.contest_id.some => job.submission.contest_id = q.contest_id.val
    /\ q.problem_id.some => job.submission.problem_id = q.problem_id.val
    /\ q.language.some => job.submission.language = q.language.val
    /\ q.from.some => text_cmp(to_rfc3339_opts(job.created_time), q.from.val) >= 0
    /\ q.to.some => text_cmp(to_rfc3339_opts(job.created_time), q.to.val) <= 0
    /\ q.state.some => job.state = q.state.val
    /\ q.result.some => job.result = q.result.val

\* job.cases.sort_by_key(|case| case.id)
RECURSIVE sort_by_key(_)
sort_by_key(cases) ==
    IF cases = << >> THEN << >>
    ELSE LET first == CHOOSE i \in DOMAIN cases :
                          /\ \A k \in DOMAIN cases : cases[i].id <= cases[k].id
                          /\ \A k \in 1..(i - 1) : cases[k].id > cases[i].id
         IN  << cases[first] >>
                 \o sort_by_key([k \in 1..(Len(cases) - 1) |->
                                    IF k < first THEN cases[k] ELSE cases[k + 1]])

\* fetch_jobs_by_query: the records collected in a HashMap come out in any
\* order and are sorted (stably) by the text of created_time; each record's
\* cases are sorted by index
fetch_jobs_by_query(q) ==
    LET selected == { k \in DOMAIN jobs : where(jobs[k], q) }
    IN  { [i \in 1..Cardinality(selected) |->
              [jobs[p[i]] EXCEPT !.cases = sort_by_key(jobs[p[i]].cases)]] :
            p \in { f \in [1..Cardinality(selected) -> selected] :
                      /\ \A i, k \in DOMAIN f : i # k => f[i] # f[k]
                      /\ \A i \in 1..(Cardinality(selected) - 1) :
                             text_cmp(to_rfc3339_opts(jobs[f[i]].created_time),
                                      to_rfc3339_opts(jobs[f[i + 1]].created_time)) <= 0 } }

\* get_jobs_handler: `from` is present and does not parse
GetJobsInvalid(q) ==
    /\ query = NoQuery
    /\ q.from.some /\ ~parse_from_rfc3339(q.from.val).ok
    /\ query' = q
    /\ response' = Respond("GET jobs", 0, 400, 1, << >>)
    /\ UNCHANGED << jobs, users, program_output, expected_output, is_correct >>
    /\ UNCHANGED pipeline

\* get_jobs_handler: the query is run and its records returned
GetJobs(q) ==
    /\ query = NoQuery
    /\ ~(q.from.some /\ ~parse_from_rfc3339(q.from.val).ok)
    /\ query' = q
    /\ \E records \in fetch_jobs_by_query(q) :
           response' = Respond("GET jobs", 0, 200, 0, records)
    /\ UNCHANGED << jobs, users, program_output, expected_output, is_correct >>
    /\ UNCHANGED pipeline

\* bounds of the GET /jobs inputs
MaxQueryJobs == 2
MaxQueryTime == 1
MaxFilters == 2

\* timestamp texts a client may send: the hour with each suffix, and a text
\* that is no timestamp
TimestampTexts ==
    { << Digit(h) >> \o suffix :
          h \in 0..MaxQueryTime,
          suffix \in { << Zed >>, << Dot, Zed >>, << Plus, Digit(1) >>, << Minus, Digit(1) >> } }
        \cup { << Letter >> }

\* queries a client may send, with at most MaxFilters parameters present
JobsQueries ==
    { q \in [op : {"jobs"},
             user_id : {Absent(0), Some(0)},
             user_name : {Absent(""), Some("alice")},
             contest_id : {Absent(0), Some(0)},
             problem_id : {Absent(0), Some(0)},
             language : {Absent(""), Some("py")},
             state : {Absent(""), Some("Finished")},
             result : {Absent(""), Some("Accepted")},
             from : {Absent(<< >>)} \cup { Some(t) : t \in TimestampTexts },
             to : {Absent(<< >>)} \cup { Some(t) : t \in TimestampTexts }] :
          Cardinality({ f \in {"user_id", "user_name", "contest_id", "problem_id", "language",
                               "state", "result", "from", "to"} : q[f].some }) <= MaxFilters }

\* a job row as GET /jobs reads it, with its case rows in insertion order
QueryJob(id, user_id, problem_id, created_time, finished) ==
    [id |-> id, created_time |-> created_time, updated_time |-> created_time,
     state |-> IF finished THEN "Finished" ELSE "Queueing",
     result |-> IF finished THEN "Accepted" ELSE "Waiting",
     score |-> IF finished THEN CaseScore(1) ELSE 0,
     submission |-> [user_id |-> user_id, contest_id |-> 0, problem_id |-> problem_id,
                     language |-> IF problem_id = 0 THEN "py" ELSE "cc"],
     cases |-> [i \in 1..2 |-> [WaitingCase(i - 1) EXCEPT
                                    !.result = IF finished THEN "Accepted" ELSE "Waiting"]]]

\* a database holding two users and up to MaxQueryJobs jobs, before a GET /jobs
JobsInit ==
    /\ queue = << >>
    /\ workers = [w \in Workers |-> IdleWorker]
    /\ handlers = [h \in Handlers |-> IdleHandler]
    /\ chan = [h \in Handlers |-> NoChannel]
    /\ response = NoResponse
    /\ blocking = FALSE
    /\ requests = 0
    /\ clock = MaxQueryTime
    /\ token = FALSE
    /\ query = NoQuery
    /\ program_output = NoText
    /\ expected_output = NoText
    /\ is_correct = FALSE
    /\ notify = NoNotify
    /\ users = { [id |-> i, name |-> UserNames[i + 1]] : i \in 0..1 }
    /\ \E n \in 0..MaxQueryJobs :
         \E user_id \in [1..n -> 0..1],
            problem_id \in [1..n -> {0, 1}],
            created_time \in [1..n -> 0..MaxQueryTime],
            finished \in [1..n -> BOOLEAN] :
              jobs = [i \in 1..n |->
                         QueryJob(i - 1, user_id[i], problem_id[i], created_time[i], finished[i])]

JobsNext ==
    \/ \E q \in JobsQueries : GetJobsInvalid(q)
    \/ \E q \in JobsQueries : GetJobs(q)

JobsSpec == JobsInit /\ [][JobsNext]_vars

\* -------------------------------------------------------------- POST /users
MaxUserRequests == 3

\* request bodies a client may send: a create (no id) or a rename (id given)
UserRequests ==
    [op : {"users"}, id : {Absent(0), Some(0), Some(1), Some(5)},
     name : { UserNames[i] : i \in DOMAIN UserNames }]

\* database.rs user_name_exists: a row with the name, other than exclude_id's
user_name_exists(name, exclude_id) ==
    \E u \in users : u.name = name /\ (exclude_id.some => u.id # exclude_id.val)

\* database.rs get_next_user_id: MAX(id) + 1, 0 on an empty table
get_next_user_id ==
    IF users = {} THEN 0
    ELSE (CHOOSE i \in { u.id : u \in users } : \A u \in users : u.id <= i) + 1

\* the handler of a POST /users between two database calls
UserHandler(pc, body, new_id) ==
    [pc |-> pc, op |-> "POST users", id |-> body.id, name |-> body.name, new_id |-> new_id]

\* post_users_handler: the first database call of update_user (find_user) or
\* of create_user (user_name_exists), and the responses decided by it
PostUsers(h, body) ==
    /\ handlers[h].pc = "idle"
    /\ requests < MaxUserRequests
    /\ requests' = requests + 1
    /\ query' = body
    /\ IF body.id.some
       THEN IF find_user(body.id.val)
            THEN /\ handlers' = [handlers EXCEPT ![h] = UserHandler("user_name_exists", body, 0)]
                 /\ response' = NoResponse
            ELSE /\ handlers' = handlers
                 /\ response' = Respond("POST users", body.id.val, 404, 3, NoJob)
       ELSE IF user_name_exists(body.name, Absent(0))
            THEN /\ handlers' = handlers
                 /\ response' = Respond("POST users", 0, 400, 1, NoJob)
            ELSE /\ handlers' = [handlers EXCEPT ![h] = UserHandler("get_next_user_id", body, 0)]
                 /\ response' = NoResponse
    /\ UNCHANGED << jobs, queue, workers, chan, blocking, clock, token >>
    /\ UNCHANGED << users, program_output, expected_output, is_correct, notify >>

\* update_user: user_name_exists(new_name, Some(user_id))
UpdateUserNameExists(h) ==
    /\ handlers[h].pc = "user_name_exists"
    /\ IF user_name_exists(handlers[h].name, handlers[h].id)
       THEN /\ handlers' = [handlers EXCEPT ![h] = IdleHandler]
            /\ response' = Respond("POST users", handlers[h].id.val, 400, 1, NoJob)
       ELSE /\ handlers' = [handlers EXCEPT ![h].pc = "update_user"]
            /\ response' = NoResponse
    /\ UNCHANGED << jobs, queue, workers, chan, blocking, requests, clock, token >>
    /\ UNCHANGED elsewhere

\* db::update_user: UPDATE users SET name = ? WHERE id = ?; the UNIQUE
\* constraint on name makes the statement fail when another row has the name
UpdateUser(h) ==
    /\ handlers[h].pc = "update_user"
    /\ IF \E u \in users : u.name = handlers[h].name /\ u.id # handlers[h].id.val
       THEN /\ users' = users
            /\ response' = Respond("POST users", handlers[h].id.val, 500, 5, NoJob)
       ELSE /\ users' = { IF u.id = handlers[h].id.val
                          THEN [u EXCEPT !.name = handlers[h].name] ELSE u : u \in users }
            /\ response' = Respond("POST users", handlers[h].id.val, 200, 0,
                                   [id |-> handlers[h].id.val, name |-> handlers[h].name])
    /\ handlers' = [handlers EXCEPT ![h] = IdleHandler]
    /\ UNCHANGED << jobs, queue, workers, chan, blocking, requests, clock, token >>
    /\ UNCHANGED << query, program_output, expected_output, is_correct, notify >>

\* db::create_user: get_next_user_id
CreateUserNextId(h) ==
    /\ handlers[h].pc = "get_next_user_id"
    /\ handlers' = [handlers EXCEPT ![h].pc = "insert", ![h].new_id = get_next_user_id]
    /\ response' = NoResponse
    /\ UNCHANGED << jobs, queue, workers, chan, blocking, requests, clock, token >>
    /\ UNCHANGED elsewhere

\* db::create_user: INSERT INTO users (id, name); the PRIMARY KEY on id and
\* the UNIQUE constraint on name make the statement fail on a duplicate
CreateUserInsert(h) ==
    /\ handlers[h].pc = "insert"
    /\ IF \E u \in users : u.id = handlers[h].new_id \/ u.name = handlers[h].name
       THEN /\ users' = users
            /\ response' = Respond("POST users", handlers[h].new_id, 500, 5, NoJob)
       ELSE /\ users' = users \cup { [id |-> handlers[h].new_id, name |-> handlers[h].name] }
            /\ response' = Respond("POST users", handlers[h].new_id, 200, 0,
                                   [id |-> handlers[h].new_id, name |-> handlers[h].name])
    /\ handlers' = [handlers EXCEPT ![h] = IdleHandler]
    /\ UNCHANGED << jobs, queue, workers, chan, blocking, requests, clock, token >>
    /\ UNCHANGED << query, program_output, expected_output, is_correct, notify >>

UsersNext ==
    \/ \E h \in Handlers, body \in UserRequests : PostUsers(h, body)
    \/ \E h \in Handlers : UpdateUserNameExists(h)
    \/ \E h \in Handlers : UpdateUser(h)
    \/ \E h \in Handlers : CreateUserNextId(h)
    \/ \E h \in Handlers : CreateUserInsert(h)

\* the server after start-up, receiving POST /users requests
UsersSpec == Init /\ [][UsersNext]_vars

\* -------------------------------------------------------- output comparison
\* characters of an output text, by their byte values
Newline == 10
Space == 32
LetterA == 97

\* char::is_whitespace, for the characters above
is_whitespace(c) == c \in {Newline, Space}

\* str::trim_end: the text without its trailing whitespace
RECURSIVE trim_end(_)
trim_end(s) ==
    IF s = << >> THEN << >>
    ELSE IF is_whitespace(s[Len(s)]) THEN trim_end(SubSeq(s, 1, Len(s) - 1))
    ELSE s

\* str::lines from position i on: the lines ended by a newline so far, and
\* the characters of the line being read; a last line without newline is a
\* line unless it is empty
RECURSIVE lines_from(_, _, _, _)
lines_from(s, i, line, done) ==
    IF i > Len(s) THEN (IF line = << >> THEN done ELSE Append(done, line))
    ELSE IF s[i] = Newline THEN lines_from(s, i + 1, << >>, Append(done, line))
    ELSE lines_from(s, i + 1, Append(line, s[i]), done)

lines(s) == lines_from(s, 1, << >>, << >>)

\* [&str]::join("\n")
RECURSIVE join(_)
join(ls) ==
    IF ls = << >> THEN << >>
    ELSE IF Len(ls) = 1 THEN ls[1]
    ELSE ls[1] \o << Newline >> \o join(Tail(ls))

\* mutant: the lines are not trimmed, only the whole text is
normalize_whole_only(s) == trim_end(join(lines(s)))

\* compare_output_standard: the closure normalize
normalize(s) == trim_end(join([i \in DOMAIN lines(s) |-> trim_end(lines(s)[i])]))

compare_output_standard(program, expected) == normalize(program) = normalize(expected)

compare_output_strict(program, expected) == program = expected

\* check_output_correctness: the match on problem.judge_type
check_output_correctness(judge_type, program, expected) ==
    IF judge_type = "Standard" THEN compare_output_standard(program, expected)
    ELSE IF judge_type = "Strict" THEN compare_output_strict(program, expected)
    ELSE FALSE

\* the comparison of the program's output with the expected answer
Compare(judge_type) ==
    /\ query = NoQuery
    /\ query' = [op |-> "compare", judge_type |-> judge_type]
    /\ is_correct' = check_output_correctness(judge_type, program_output, expected_output)
    /\ response' = NoResponse
    /\ UNCHANGED << jobs, users, program_output, expected_output >>
    /\ UNCHANGED pipeline

\* bound of the texts compared
MaxTextLen == 3

RECURSIVE TextsOfLen(_)
TextsOfLen(n) ==
    IF n = 0 THEN { << >> }
    ELSE { Append(s, c) : s \in TextsOfLen(n - 1), c \in {Newline, Space, LetterA} }

Texts == UNION { TextsOfLen(n) : n \in 0..MaxTextLen }

\* a test case about to be checked: any output against any expected answer
CompareInit ==
    /\ jobs = << >>
    /\ queue = << >>
    /\ workers = [w \in Workers |-> IdleWorker]
    /\ handlers = [h \in Handlers |-> IdleHandler]
    /\ chan = [h \in Handlers |-> NoChannel]
    /\ response = NoResponse
    /\ blocking = FALSE
    /\ requests = 0
    /\ clock = 0
    /\ token = FALSE
    /\ users = {RootUser}
    /\ query = NoQuery
    /\ program_output \in Texts
    /\ expected_output \in Texts
    /\ is_correct = FALSE
    /\ notify = NoNotify

CompareNext ==
    \/ Compare("Standard")
    \/ Compare("Strict")
    \/ Compare("Spj")

CompareSpec == CompareInit /\ [][CompareNext]_vars

\* ------------------------------------------------- sandbox back-ends in detail
\* number of test cases of the problem the runner is given, and length of a
\* meta file in lines
MaxRunCases == 2
MaxMetaLines == 2

\* case.time_limit of every case of that problem, in microseconds
case_time_limit == 1000000

run_problem ==
    [id |-> 0,
     cases |-> [i \in 1..MaxRunCases |-> [score |-> CaseScore(i), time_limit |-> case_time_limit]]]

\* the record the worker hands to SandboxRunner::run: a job as fetch_job
\* reads it after create_job or revert_job_to_queueing
FetchedJob ==
    [id |-> 0, created_time |-> 0, updated_time |-> 0,
     state |-> "Queueing", result |-> "Waiting", score |-> 0,
     submission |-> [user_id |-> 0, contest_id |-> 0, problem_id |-> 0, language |-> "py"],
     cases |-> [i \in 1..(MaxRunCases + 1) |-> WaitingCase(i - 1)]]

\* TestCaseResult as both runners initialise it (error None is "")
ResultTemplate == [time |-> 0, memory |-> 0, error |-> "", info |-> "", stdout_content |-> ""]

\* how the Simple back-end's timeout(30 s, execute_compile_command_async)
\* can end: Ok(Ok(status)) with or without success, Ok(Err(e)), Err(elapsed)
SimpleCompileStatuses == {"exit 0", "exit 1", "io error", "timeout"}

\* SimpleRunner::compile_source_code, the match on compilation_result
simple_compile_error(status) ==
    CASE status = "exit 0" -> ""
      [] status = "exit 1" -> "Compilation Error"
      [] status = "io error" -> "System Error"
      [] status = "timeout" -> "Time Limit Exceeded"

\* SimpleRunner::compile_source_code: compilation_success
simple_compilation_success(c) == simple_compile_error(c.status) = "" /\ c.executable_exists

\* SimpleRunner::compile_source_code on what the compile command did
simple_compile_source_code(job, c) ==
    compile_source_code(job, [success |-> simple_compilation_success(c),
                              time |-> c.compile_time, memory |-> 0, info |-> c.output])

\* value.parse::<u32>() and value.parse::<f64>() on the values a meta line
\* carries here
parse_number(value) ==
    CASE value = "0" -> Some(0)
      [] value = "1" -> Some(1)
      [] OTHER -> Absent(0)

\* IsolateRunner::process_meta_content: the lines of the meta file in order,
\* each already split at its first ':'
RECURSIVE process_meta_content(_, _)
process_meta_content(meta_content, result) ==
    IF meta_content = << >> THEN result
    ELSE LET key == Head(meta_content).key
             value == Head(meta_content).value
             updated ==
                 CASE key = "killed" -> [result EXCEPT !.error = "Time Limit Exceeded"]
                   [] key = "cg-oom-killed" -> [result EXCEPT !.error = "Memory Limit Exceeded"]
                   [] key = "exitcode" ->
                          IF value # "0" /\ result.error = ""
                          THEN [result EXCEPT !.error = "Runtime Error"]
                          ELSE result
                   [] key = "cg-mem" ->
                          IF parse_number(value).some
                          THEN [result EXCEPT !.memory = parse_number(value).val]
                          ELSE result
                   [] key = "message" -> [result EXCEPT !.info = value]
                   [] key = "time-wall" ->
                          IF parse_number(value).some
                          THEN [result EXCEPT !.time = parse_number(value).val * 1000000]
                          ELSE result
                   [] OTHER -> result
         IN  process_meta_content(Tail(meta_content), updated)

\* meta_content.contains("status")
contains_status(meta_content) ==
    \E i \in DOMAIN meta_content :
        meta_content[i].key = "status" \/ meta_content[i].value = "status"

\* IsolateRunner::process_compilation_results on the compile step's meta
\* file and captured output
process_compilation_results(job, c) ==
    LET result == process_meta_content(c.meta_content, ResultTemplate)
    IN  compile_source_code(job, [success |-> ~contains_status(c.meta_content) /\ c.executable_exists,
                                  time |-> result.time, memory |-> result.memory, info |-> c.output])

\* IsolateRunner::run_single_test_case: "use external wall timer to modify
\* the result"
wall_timer_override(result, elapsed_time, time_limit) ==
    IF elapsed_time > time_limit
    THEN [result EXCEPT !.time = elapsed_time, !.error = "Time Limit Exceeded"]
    ELSE result

\* IsolateRunner::run_single_test_case after execute_test_case returned:
\* e.meta is the meta file if it can be read, e.elapsed_time the wall time
\* measured around the call, e.stdout the output file if it can be read
isolate_run_single_test_case(e, case_config) ==
    LET read == IF e.meta.some
                THEN process_meta_content(e.meta.val, ResultTemplate)
                ELSE [ResultTemplate EXCEPT !.error = "System Error",
                                            !.info = "Failed to read meta file"]
        timed == wall_timer_override(read, e.elapsed_time, case_config.time_limit)
    IN  IF timed.error # "" THEN timed
        ELSE IF e.stdout.some THEN [timed EXCEPT !.stdout_content = e.stdout.val]
        ELSE [timed EXCEPT !.error = "System Error", !.info = "Failed to read output file"]

\* how the Simple back-end's timeout(case.time_limit, execute_program_async)
\* can end
SimpleRunStatuses == {"exit 0", "exit 1", "io error", "timeout"}

\* SimpleRunner::run_single_test_case
simple_run_single_test_case(e) ==
    LET measured == [ResultTemplate EXCEPT !.time = e.elapsed_time]
        matched ==
            CASE e.status = "exit 0" -> measured
              [] e.status = "exit 1" ->
                     [measured EXCEPT !.error = "Runtime Error", !.info = "Process exited with code"]
              [] e.status = "io error" ->
                     [measured EXCEPT !.error = "System Error", !.info = "Execution error"]
              [] e.status = "timeout" ->
                     [measured EXCEPT !.error = "Time Limit Exceeded",
                                      !.info = "Program execution timeout"]
    IN  IF matched.error # "" THEN matched
        ELSE IF e.stdout.some THEN [matched EXCEPT !.stdout_content = e.stdout.val]
        ELSE [matched EXCEPT !.error = "System Error", !.info = "Failed to read output file"]

\* the lines a meta file is made of
MetaLines ==
    [key : {"killed", "cg-oom-killed", "exitcode", "cg-mem", "message", "time-wall", "status"},
     value : {"0", "1", "RE"}]

RECURSIVE MetaOfLen(_)
MetaOfLen(n) ==
    IF n = 0 THEN { << >> }
    ELSE { Append(m, l) : m \in MetaOfLen(n - 1), l \in MetaLines }

MetaContents == UNION { MetaOfLen(n) : n \in 0..MaxMetaLines }

\* wall times measured around a call: within the limit, and beyond it
ElapsedTimes == {case_time_limit, case_time_limit + 1}

\* the output file: readable or not
OutputFiles == {Some("42"), Absent("")}

\* what one test case can yield to run_test_cases: any error either
\* run_single_test_case reports, or none with the verdict of
\* check_output_correctness
CaseOutcomes ==
    [error : {"", "Time Limit Exceeded", "Memory Limit Exceeded", "Runtime Error", "System Error"},
     correct : BOOLEAN, time : {1}, memory : {1}, info : {""}]

\* the runs of the two back-ends taken one call at a time
SandboxInputs ==
    [op : {"SimpleRunner::compile_source_code"}, status : SimpleCompileStatuses,
     executable_exists : BOOLEAN, compile_time : {1}, output : {"cc"}]
    \cup [op : {"IsolateRunner::process_compilation_results"}, meta_content : MetaContents,
          executable_exists : BOOLEAN, output : {"cc"}]
    \cup [op : {"IsolateRunner::run_single_test_case"},
          meta : {Some(m) : m \in MetaContents} \cup {Absent(<< >>)},
          elapsed_time : ElapsedTimes, stdout : OutputFiles]
    \cup [op : {"SimpleRunner::run_single_test_case"}, status : SimpleRunStatuses,
          elapsed_time : ElapsedTimes, stdout : OutputFiles]
    \cup [op : {"run_test_cases"}, tests : [1..MaxRunCases -> CaseOutcomes]]

\* a call whose result is not yet there
Called(op) == query.op = op /\ response.op = "none"

\* the result of a call, as the body of the response variable
Returned(op, value) == response' = Respond(op, 0, 0, 0, value)

SimpleCompile ==
    /\ Called("SimpleRunner::compile_source_code")
    /\ Returned(query.op, simple_compile_source_code(FetchedJob, query))
    /\ UNCHANGED << jobs >>
    /\ UNCHANGED elsewhere
    /\ UNCHANGED pipeline

IsolateCompile ==
    /\ Called("IsolateRunner::process_compilation_results")
    /\ Returned(query.op, process_compilation_results(FetchedJob, query))
    /\ UNCHANGED << jobs >>
    /\ UNCHANGED elsewhere
    /\ UNCHANGED pipeline

IsolateRunSingleTestCase ==
    /\ Called("IsolateRunner::run_single_test_case")
    /\ Returned(query.op, isolate_run_single_test_case(query, run_problem.cases[1]))
    /\ UNCHANGED << jobs >>
    /\ UNCHANGED elsewhere
    /\ UNCHANGED pipeline

SimpleRunSingleTestCase ==
    /\ Called("SimpleRunner::run_single_test_case")
    /\ Returned(query.op, simple_run_single_test_case(query))
    /\ UNCHANGED << jobs >>
    /\ UNCHANGED elsewhere
    /\ UNCHANGED pipeline

\* run_test_cases of either back-end on a job whose compilation succeeded
RunTestCases ==
    /\ Called("run_test_cases")
    /\ Returned(query.op,
                run_test_cases([FetchedJob EXCEPT !.cases[1].result = "Compilation Success"],
                               run_problem, query.tests))
    /\ UNCHANGED << jobs >>
    /\ UNCHANGED elsewhere
    /\ UNCHANGED pipeline

SandboxInit ==
    /\ jobs = << >>
    /\ queue = << >>
    /\ workers = [w \in Workers |-> IdleWorker]
    /\ handlers = [h \in Handlers |-> IdleHandler]
    /\ chan = [h \in Handlers |-> NoChannel]
    /\ response = NoResponse
    /\ blocking = FALSE
    /\ requests = 0
    /\ clock = 0
    /\ token = FALSE
    /\ users = {RootUser}
    /\ query \in SandboxInputs
    /\ program_output = NoText
    /\ expected_output = NoText
    /\ is_correct = FALSE
    /\ notify = NoNotify

SandboxNext ==
    \/ SimpleCompile
    \/ IsolateCompile
    \/ IsolateRunSingleTestCase
    \/ SimpleRunSingleTestCase
    \/ RunTestCases

SandboxSpec == SandboxInit /\ [][SandboxNext]_vars

\* The server while its tasks are scheduled: a worker that has popped a
\* message is polled until its iteration ends (the database calls and the
\* blocking task return), and a handler whose rx.await can complete is polled.
WorkerIteration(w) ==
    \/ WorkerFetchJob(w)
    \/ WorkerFetchCases(w)
    \/ WorkerRunning(w)
    \/ \E outcome \in RunOutcomes : WorkerSaveResult(w, outcome)
    \/ WorkerRunFailed(w)
    \/ WorkerSend(w)

ReplySpec ==
    /\ Spec
    /\ \A w \in Workers : WF_vars(WorkerIteration(w))
    /\ \A h \in Handlers : WF_vars(AwaitReply(h))

\* ------------------------------------------------------- GET /jobs/{id}
\* get_job_by_id_handler: db::fetch_job, the SELECT on jobs; RowNotFound is
\* answered ERR_NOT_FOUND.  The request is one more in flight beside those
\* of the handlers; query holds what it has read so far.
GetJob(job_id) ==
    /\ query = NoQuery
    /\ requests < MaxRequests /\ ~token
    /\ requests' = requests + 1
    /\ IF Exists(job_id)
       THEN /\ query' = [op |-> "GET job", id |-> job_id, record |-> fetch_job_row(job_id)]
            /\ response' = NoResponse
       ELSE /\ query' = query
            /\ response' = Respond("GET", job_id, 404, 3, NoJob)
    /\ UNCHANGED << jobs, queue, workers, handlers, chan, blocking, clock, token >>
    /\ UNCHANGED << users, program_output, expected_output, is_correct, notify >>

\* get_job_by_id_handler: db::fetch_job, the SELECT on job_case, and the answer
GetJobCases ==
    /\ query # NoQuery
    /\ query.op = "GET job"
    /\ response' = Respond("GET", query.id, 200, 0,
                           [query.record EXCEPT !.cases = fetch_job_cases(query.id)])
    /\ query' = NoQuery
    /\ UNCHANGED << jobs, queue, workers, handlers, chan, blocking, requests, clock, token >>
    /\ UNCHANGED << users, program_output, expected_output, is_correct, notify >>

\* the job pipeline with a reader
ReadNext ==
    \/ Next
    \/ \E job_id \in 0..MaxJobs : GetJob(job_id)
    \/ GetJobCases

ReadSpec == Init /\ [][ReadNext]_vars

\* --------------------------------------------------- JobQueue, step by step
\* number of messages pushed
MaxPushes == 3

\* mutant: a notification that finds no waiter is not kept as a permit
notify_one_no_permit(n) ==
    IF n.waiters # << >>
    THEN [n EXCEPT !.waiters = Tail(n.waiters),
                   !.notified = n.notified \cup {Head(n.waiters)}]
    ELSE n

\* tokio::sync::Notify::notify_one: the waiter registered first is notified;
\* with no waiter registered one permit is stored (never more than one)
notify_one(n) ==
    IF n.waiters # << >>
    THEN [n EXCEPT !.waiters = Tail(n.waiters),
                   !.notified = n.notified \cup {Head(n.waiters)}]
    ELSE [n EXCEPT !.permit = TRUE]

\* the worker tasks are spawned on the runtime of #[actix_web::main], which
\* runs them on one thread: a worker runs from one await to the next with no
\* other worker in between.  The worker that is between two awaits of pop:
OnThread(w) == workers[w].pc \in {"pop_front", "notified"}

ThreadFree(w) == \A v \in Workers \ {w} : ~OnThread(v)

\* JobQueue::push on a request thread: push_back under the mutex
PushBack(h) ==
    /\ handlers[h].pc = "idle"
    /\ requests < MaxPushes
    /\ requests' = requests + 1
    /\ queue' = push([job_id |-> requests, kind |-> "FireAndForget", responder |-> 0])
    /\ handlers' = [handlers EXCEPT ![h].pc = "notify_one"]
    /\ UNCHANGED << jobs, workers, chan, response, blocking, clock, token, notify >>
    /\ UNCHANGED << users, query, program_output, expected_output, is_correct >>

\* JobQueue::push: self.notify.notify_one()
NotifyOne(h) ==
    /\ handlers[h].pc = "notify_one"
    /\ notify' = notify_one(notify)
    /\ handlers' = [handlers EXCEPT ![h].pc = "idle"]
    /\ UNCHANGED << jobs, queue, workers, chan, response, blocking, requests, clock, token >>
    /\ UNCHANGED << users, query, program_output, expected_output, is_correct >>

\* the worker task is polled at the top of its loop and enters pop
PopEnter(w) ==
    /\ workers[w].pc = "pop"
    /\ ThreadFree(w)
    /\ workers' = [workers EXCEPT ![w].pc = "pop_front"]
    /\ UNCHANGED << jobs, queue, handlers, chan, response, blocking, requests, clock, token, notify >>
    /\ UNCHANGED << users, query, program_output, expected_output, is_correct >>

\* JobQueue::pop: pop_front under the mutex; Some(job) is returned to the
\* worker, which awaits the database next
PopFront(w) ==
    /\ workers[w].pc = "pop_front"
    /\ IF queue # << >>
       THEN /\ workers' = [workers EXCEPT ![w].pc = "run", ![w].msg = Head(queue)]
            /\ queue' = pop_front(queue)
       ELSE /\ workers' = [workers EXCEPT ![w].pc = "notified"]
            /\ queue' = queue
    /\ UNCHANGED << jobs, handlers, chan, response, blocking, requests, clock, token, notify >>
    /\ UNCHANGED << users, query, program_output, expected_output, is_correct >>

\* JobQueue::pop: the first poll of self.notify.notified(): a stored permit
\* is consumed and the loop goes round, else the worker is registered and
\* its task suspends
Notified(w) ==
    /\ workers[w].pc = "notified"
    /\ IF notify.permit
       THEN /\ notify' = [notify EXCEPT !.permit = FALSE]
            /\ workers' = [workers EXCEPT ![w].pc = "pop_front"]
       ELSE /\ notify' = [notify EXCEPT !.waiters = Append(notify.waiters, w)]
            /\ workers' = [workers EXCEPT ![w].pc = "suspended"]
    /\ UNCHANGED << jobs, queue, handlers, chan, response, blocking, requests, clock, token >>
    /\ UNCHANGED << users, query, program_output, expected_output, is_correct >>

\* a notified worker's task is polled again: notified() completes and the
\* loop goes round
Woken(w) ==
    /\ workers[w].pc = "suspended"
    /\ w \in notify.notified
    /\ ThreadFree(w)
    /\ notify' = [notify EXCEPT !.notified = notify.notified \ {w}]
    /\ workers' = [workers EXCEPT ![w].pc = "pop_front"]
    /\ UNCHANGED << jobs, queue, handlers, chan, response, blocking, requests, clock, token >>
    /\ UNCHANGED << users, query, program_output, expected_output, is_correct >>

\* the worker is done with the job it popped and is back at the top of its loop
JobDone(w) ==
    /\ workers[w].pc = "run"
    /\ ThreadFree(w)
    /\ workers' = [workers EXCEPT ![w] = IdleWorker]
    /\ UNCHANGED << jobs, queue, handlers, chan, response, blocking, requests, clock, token, notify >>
    /\ UNCHANGED << users, query, program_output, expected_output, is_correct >>

QueueNext ==
    \/ \E h \in Handlers : PushBack(h)
    \/ \E h \in Handlers : NotifyOne(h)
    \/ \E w \in Workers : PopEnter(w)
    \/ \E w \in Workers : PopFront(w)
    \/ \E w \in Workers : Notified(w)
    \/ \E w \in Workers : Woken(w)
    \/ \E w \in Workers : JobDone(w)

\* a worker task inside pop is polled when it can run; a push that has
\* appended its message goes on to notify.  Nothing obliges a further push
\* to come or a job to end.
PopStep(w) == PopEnter(w) \/ PopFront(w) \/ Notified(w) \/ Woken(w)

QueueSpec ==
    /\ Init
    /\ [][QueueNext]_vars
    /\ \A w \in Workers : WF_vars(PopStep(w))
    /\ \A h \in Handlers : WF_vars(NotifyOne(h))

\* ------------------------------------------------------------------ claims
State(id) == Row(id).state

InQueue(id) == \E i \in DOMAIN queue : queue[i].job_id = id

\* worker w has marked job id Running and has not yet saved its result
Owns(w, id) == workers[w].pc = "run" /\ workers[w].msg.job_id = id

\* worker w has popped a message of job id and has not yet marked it Running
Popped(w, id) ==
    /\ workers[w].pc \in {"fetch_job", "fetch_cases", "update_job_to_running"}
    /\ workers[w].msg.job_id = id

LegalTransitions ==
    { <<"Queueing", "Running">>, <<"Running", "Finished">>, <<"Queueing", "Canceled">>,
      <<"Finished", "Queueing">>, <<"Canceled", "Queueing">> }

\* C1: every change of a job's persisted state is Queueing->Running,
\* Running->Finished, Queueing->Canceled, Finished->Queueing or
\* Canceled->Queueing; no other transition is ever persisted.
C1_OnlyLegalTransitions ==
    [][\A id \in JobIds :
          (Exists(id) /\ jobs'[id + 1].state # State(id))
              => <<State(id), jobs'[id + 1].state>> \in LegalTransitions]_vars

\* C2: between a worker's update_job_to_running(j) and its save_result(j) no
\* other worker runs or writes job j and no handler mutates job j.
C2_ExclusiveOwnership ==
    [][\A w \in Workers, id \in JobIds :
          Owns(w, id) =>
              /\ \A v \in Workers \ {w} : ~Owns(v, id)
              /\ workers'[w] = workers[w] => jobs'[id + 1] = jobs[id + 1]]_vars

\* a POST or PUT handler has committed the Queueing row of job id and is about
\* to push its message
AboutToPush(h, id) == handlers[h].pc = "push" /\ handlers[h].id = id

\* a DELETE handler has removed the messages of job id and is about to mark it
\* Canceled
AboutToCancel(h, id) == handlers[h].pc = "update_job_to_canceled" /\ handlers[h].id = id

WellFormedCases(record) ==
    /\ Len(record.cases) = 1 + Len(problem_config(record).cases)
    /\ \A i \in DOMAIN record.cases : record.cases[i].id = i - 1

\* C4: every record of a job that is persisted or returned by an endpoint has
\* exactly 1 + len(problem.cases) cases with indices 0..len(cases)-1.
C4_CaseCount ==
    /\ \A id \in JobIds : Exists(id) => WellFormedCases(Row(id))
    /\ response.body # NoJob => WellFormedCases(response.body)

Terminal(result) == result \notin {"Waiting", "Running"}

\* C5 (as stated): whenever a job's persisted state is Finished, every one of
\* its case rows has a terminal result, compilation failure included.
C5_FinishedAllTerminal ==
    \A id \in JobIds :
        (Exists(id) /\ State(id) = "Finished")
            => \A i \in DOMAIN Row(id).cases : Terminal(Row(id).cases[i].result)

\* C5 (amended): whenever a job's persisted state is Finished, no case row is
\* Running, case 0 has a terminal result, and a test case is still Waiting
\* only if the job's result is Compilation Error (the test cases were not run).
C5_FinishedTerminalUnlessCompileError ==
    \A id \in JobIds :
        (Exists(id) /\ State(id) = "Finished")
            => \A i \in DOMAIN Row(id).cases :
                  /\ Row(id).cases[i].result # "Running"
                  /\ Row(id).cases[i].result = "Waiting"
                        => (Row(id).cases[i].id >= 1 /\ Row(id).result = "Compilation Error")

\* C5 witness: a Finished job whose compilation failed and whose test cases
\* are still Waiting
C5_Witness ==
    \E id \in JobIds :
        /\ Exists(id) /\ State(id) = "Finished"
        /\ Row(id).result = "Compilation Error"
        /\ Row(id).cases[1].result = "Compilation Error"
        /\ \A i \in 2..Len(Row(id).cases) : Row(id).cases[i].result = "Waiting"

\* sum of the configured scores of the cases of a record that are Accepted
RECURSIVE AcceptedScore(_, _, _)
AcceptedScore(record, problem, idx) ==
    IF idx > Len(problem.cases) THEN 0
    ELSE (IF idx + 1 \in DOMAIN record.cases /\ record.cases[idx + 1].result = "Accepted"
          THEN problem.cases[idx].score ELSE 0)
         + AcceptedScore(record, problem, idx + 1)

\* C6: for every Finished job, result = Accepted iff every non-compile case is
\* Accepted, and score is the sum of the scores of the Accepted cases.
C6_AcceptedIffAllAccepted ==
    \A id \in JobIds :
        (Exists(id) /\ State(id) = "Finished")
            => /\ (Row(id).result = "Accepted")
                    <=> (\A i \in 2..Len(Row(id).cases) : Row(id).cases[i].result = "Accepted")
               /\ Row(id).score = AcceptedScore(Row(id), problem_config(Row(id)), 1)

IsReset(record) ==
    /\ record.state = "Queueing" /\ record.result = "Waiting" /\ record.score = 0
    /\ \A i \in DOMAIN record.cases :
          /\ record.cases[i].result = "Waiting"
          /\ record.cases[i].time = 0 /\ record.cases[i].memory = 0
          /\ record.cases[i].info = ""

MessagesOf(id) == {i \in DOMAIN queue : queue[i].job_id = id}

\* C8: a PUT on a Finished or Canceled job commits state=Queueing,
\* result=Waiting, score=0 and every case Waiting/0/0/"" (the case rows, their
\* indices and the submission kept), and then pushes exactly one message for
\* the job, leaving the rows as they are.
C8_RejudgeResets ==
    [][\A h \in Handlers :
          /\ (handlers[h].pc = "revert" /\ handlers'[h].pc = "push")
                => /\ IsReset(jobs'[handlers[h].id + 1])
                   /\ Len(jobs'[handlers[h].id + 1].cases) = Len(Row(handlers[h].id).cases)
                   /\ \A i \in DOMAIN Row(handlers[h].id).cases :
                         jobs'[handlers[h].id + 1].cases[i].id = Row(handlers[h].id).cases[i].id
                   /\ jobs'[handlers[h].id + 1].submission = Row(handlers[h].id).submission
                   /\ queue' = queue
          /\ (handlers[h].pc = "push" /\ handlers[h].op = "PUT" /\ handlers'[h].pc # "push")
                => /\ Len(queue') = Len(queue) + 1
                   /\ SubSeq(queue', 1, Len(queue)) = queue
                   /\ queue'[Len(queue')].job_id = handlers[h].id
                   /\ jobs' = jobs]_vars

\* C8 witness: a PUT on a job that had been judged has just returned 200, no
\* worker has picked the job up, the row is reset and one message is queued
C8_Witness ==
    /\ response.op = "PUT" /\ response.status = 200
    /\ Exists(response.id) /\ IsReset(Row(response.id))
    /\ Cardinality(MessagesOf(response.id)) = 1
    /\ \A w \in Workers : workers[w].pc = "pop"

IsCanceled(record) ==
    /\ record.state = "Canceled" /\ record.result = "Skipped"
    /\ \A i \in DOMAIN record.cases : record.cases[i].result = "Skipped"

\* C9: DELETE on a job with a queued message removes every message with that
\* id, returns 200 and leaves the job Canceled/Skipped with every case
\* Skipped; and no worker subsequently runs the canceled job unless it is
\* rejudged (a Canceled row only ever changes to Queueing).
C9_CancelQueued ==
    [][/\ \A h \in Handlers :
            /\ (handlers[h].pc = "idle" /\ handlers'[h].op = "DELETE"
                    /\ InQueue(handlers'[h].id))
                  => /\ handlers'[h].pc = "update_job_to_canceled"
                     /\ \A i \in DOMAIN queue' : queue'[i].job_id # handlers'[h].id
            /\ (handlers[h].pc = "update_job_to_canceled" /\ handlers'[h].pc = "idle")
                  => /\ response'.op = "DELETE" /\ response'.status = 200
                     /\ response'.id = handlers[h].id
                     /\ IsCanceled(jobs'[handlers[h].id + 1])
       /\ \A id \in JobIds :
            (Exists(id) /\ State(id) = "Canceled")
                => jobs'[id + 1].state \in {"Canceled", "Queueing"}]_vars

\* C10: DELETE on an existing job with no queued message returns
\* ERR_INVALID_STATE (code 2) and changes nothing, on a non-existent job it
\* returns ERR_NOT_FOUND (code 3); of two DELETEs on the same queued job only
\* one reaches the cancelling UPDATE; a Running job is never canceled.
C10_CancelRejected ==
    [][/\ (response'.op = "DELETE" /\ response'.code = 2)
            => Exists(response'.id) /\ jobs' = jobs /\ queue' = queue
       /\ (response'.op = "DELETE" /\ response'.code = 3)
            => ~Exists(response'.id) /\ jobs' = jobs /\ queue' = queue
       /\ \A h \in Handlers :
            (handlers[h].pc = "idle" /\ handlers'[h].op = "DELETE"
                /\ ~InQueue(handlers'[h].id))
                  => handlers'[h].pc = "find_job" /\ jobs' = jobs /\ queue' = queue
       /\ \A h1, h2 \in Handlers :
            (h1 # h2 /\ handlers'[h1].pc = "update_job_to_canceled"
                /\ handlers'[h2].pc = "update_job_to_canceled")
                  => handlers'[h1].id # handlers'[h2].id
       /\ \A id \in JobIds :
            (Exists(id) /\ State(id) = "Running")
                => jobs'[id + 1].state # "Canceled"]_vars

\* handler h is suspended on rx.await and its Blocking message is in the queue
Suspended(h) ==
    /\ handlers[h].pc = "await"
    /\ \E i \in DOMAIN queue : IsBlocking(queue[i]) /\ queue[i].responder = h

\* C11: when DELETE removes a Blocking message from the queue its responder is
\* dropped (the channel of the suspended POST or PUT handler is broken), a
\* handler whose channel is broken replies ERR_INTERNAL (code 6), and it
\* always does reply: it never waits forever.
C11_CanceledBlockingRepliesInternal ==
    /\ [][\A h \in Handlers :
            /\ (Suspended(h) /\ ~Suspended(h)' /\ workers' = workers)
                  => chan'[h].st = "closed"
            /\ (handlers[h].pc = "await" /\ chan[h].st = "closed" /\ handlers'[h].pc # "await")
                  => response' = Respond(handlers[h].op, handlers[h].id, 500, 6, NoJob)]_vars
    /\ \A h \in Handlers :
            (handlers[h].pc = "await" /\ chan[h].st = "closed") ~> (handlers[h].pc = "idle")

\* C11 witness: a blocking POST or PUT has just been answered ERR_INTERNAL
\* while the DELETE that removed its message is about to mark the job Canceled
C11_Witness ==
    /\ response.op \in {"POST", "PUT"} /\ response.code = 6
    /\ \A w \in Workers : workers[w] = IdleWorker
    /\ \E d \in Handlers :
          /\ handlers[d].op = "DELETE" /\ handlers[d].pc = "update_job_to_canceled"
          /\ handlers[d].id = response.id

\* worker w returns from queue.pop() in this step
Pops(w) == workers[w].pc = "pop" /\ workers'[w].pc \notin {"pop", "exited"}

\* q2 is q without the messages of job id, the others in their order
KeepsOthersInOrder(q, q2, id) ==
    LET kept == {i \in DOMAIN q : q[i].job_id # id}
    IN  /\ Len(q2) = Cardinality(kept)
        /\ \A i \in DOMAIN q2 :
              q2[i] = q[CHOOSE k \in kept : Cardinality({j \in kept : j < k}) = i - 1]

Cancels == \E h \in Handlers : handlers[h].pc = "idle" /\ handlers'[h].op = "DELETE"

\* C13: every message is delivered to exactly one worker: a pop takes the
\* head message out of the queue and hands it to one worker only, a message
\* leaves the queue only by such a pop or by cancel_job, and the worker that
\* received a message keeps it until it is done with it.
C13_DeliveredExactlyOnce ==
    [][/\ \A w \in Workers :
            Pops(w) => /\ queue # << >>
                       /\ workers'[w].msg = queue[1]
                       /\ Len(queue') = Len(queue) - 1
                       /\ \A v \in Workers \ {w} : workers'[v] = workers[v]
       /\ (Len(queue') < Len(queue) /\ ~Cancels) => \E w \in Workers : Pops(w)
       /\ \A w \in Workers :
            (workers[w].pc # "pop" /\ workers'[w].pc # "pop")
                => workers'[w].msg = workers[w].msg]_vars

\* C13 witness: two messages were pending and each worker has received one
C13_Witness ==
    /\ queue = << >>
    /\ \A w \in Workers : workers[w].pc # "pop"
    /\ \A v, w \in Workers : v # w => workers[v].msg.job_id # workers[w].msg.job_id

\* a submission whose language and problem are configured and whose user exists
ValidSubmission(body) ==
    /\ body.language \in {languages[i].name : i \in DOMAIN languages}
    /\ body.problem_id \in {problems[i].id : i \in DOMAIN problems}
    /\ body.user_id \in {u.id : u \in users}

\* C14: a POST /jobs is taken up (a job row inserted, a message pushed later)
\* only for a submission whose language, problem and user all exist; the
\* ERR_NOT_FOUND answer is HTTP 404 with code 3 and its step inserts no job
\* row, no case row and pushes nothing.
C14_PostNotFound ==
    [][/\ \A h \in Handlers :
            (handlers[h].pc = "idle" /\ handlers'[h].op = "POST")
                => ValidSubmission(handlers'[h].submission)
       /\ Len(jobs') > Len(jobs) => ValidSubmission(jobs'[Len(jobs')].submission)
       /\ (response'.op = "POST" /\ response'.code = 3)
            => /\ response'.status = 404 /\ response'.body = NoJob
               /\ jobs' = jobs /\ queue' = queue
               /\ handlers' = handlers]_vars

\* C14 witness: a POST has just been answered 404 ERR_NOT_FOUND
C14_Witness ==
    /\ response.op = "POST" /\ response.status = 404 /\ response.code = 3
    /\ jobs = << >> /\ queue = << >>

\* a record as created: Queueing, Waiting, score 0, one Waiting case per
\* index 0..len(problem.cases)
IsFresh(record) ==
    /\ record.state = "Queueing" /\ record.result = "Waiting" /\ record.score = 0
    /\ Len(record.cases) = 1 + Len(problem_config(record).cases)
    /\ \A i \in DOMAIN record.cases : record.cases[i] = WaitingCase(i - 1)

\* C15: a valid POST /jobs inserts in one step one job row with
\* state=Queueing, result=Waiting, score=0 and 1 + len(cases) Waiting case
\* rows, then pushes exactly one message for the new id; in non-blocking mode
\* that same step returns 200 with a record of the new id and the submission
\* that is Queueing/Waiting/0 with 1 + len(cases) Waiting cases, no worker
\* having taken a step.
C15_PostCreatesAndPushes ==
    [][\A h \in Handlers :
          /\ (handlers[h].pc = "idle" /\ handlers'[h].op = "POST")
                => /\ Len(jobs') = Len(jobs) + 1
                   /\ SubSeq(jobs', 1, Len(jobs)) = jobs
                   /\ IsFresh(jobs'[Len(jobs')])
                   /\ jobs'[Len(jobs')].id = handlers'[h].id
                   /\ jobs'[Len(jobs')].submission = handlers'[h].submission
                   /\ queue' = queue
          /\ (handlers[h].pc = "push" /\ handlers[h].op = "POST" /\ handlers'[h].pc # "push")
                => /\ Len(queue') = Len(queue) + 1
                   /\ SubSeq(queue', 1, Len(queue)) = queue
                   /\ queue'[Len(queue')].job_id = handlers[h].id
                   /\ jobs' = jobs /\ workers' = workers
                   /\ ~blocking
                        => /\ response'.op = "POST" /\ response'.status = 200
                           /\ response'.body.id = handlers[h].id
                           /\ response'.body.submission = handlers[h].submission
                           /\ IsFresh(response'.body)
                           /\ handlers'[h].pc = "idle"]_vars

\* C15 witness: a non-blocking POST has just returned 200; its job is
\* Queueing with one message pending and no worker has touched it
C15_Witness ==
    /\ ~blocking
    /\ response.op = "POST" /\ response.status = 200
    /\ Exists(response.body.id) /\ IsFresh(Row(response.body.id))
    /\ Cardinality(MessagesOf(response.body.id)) = 1
    /\ \A w \in Workers : workers[w] = IdleWorker

\* C16: in blocking mode POST /jobs pushes a Blocking message carrying its
\* responder and suspends without answering; it stays suspended as long as
\* the responder is neither used nor dropped; the record a worker sends on
\* the responder is the result it saved for the message's job id; and when
\* the reply has arrived the handler answers 200 with exactly that record,
\* which it always does once the reply is there.
C16_BlockingPostReturnsReply ==
    /\ [][/\ \A h \in Handlers :
              /\ (blocking /\ handlers[h].pc = "push" /\ handlers'[h].pc # "push")
                    => /\ handlers'[h].pc = "await"
                       /\ queue'[Len(queue')] =
                            [job_id |-> handlers[h].id, kind |-> "Blocking", responder |-> h]
                       /\ response' = NoResponse
              /\ (handlers[h].pc = "await" /\ chan[h].st = "open" /\ chan'[h].st = "open")
                    => handlers'[h] = handlers[h]
              /\ (handlers[h].pc = "await" /\ chan[h].st = "sent" /\ handlers'[h].pc # "await")
                    => /\ response' = Respond(handlers[h].op, handlers[h].id, 200, 0, chan[h].val)
                       /\ response'.body.id = handlers[h].id
           /\ \A w \in Workers :
                (workers[w].pc = "send" /\ workers'[w].pc # "send")
                    => /\ chan'[workers[w].msg.responder].st = "sent"
                       /\ chan'[workers[w].msg.responder].val = workers[w].job
                       /\ workers[w].job.id = workers[w].msg.job_id
                       /\ workers[w].job.state = "Finished"]_vars
    /\ \A h \in Handlers :
            (handlers[h].pc = "await" /\ chan[h].st = "sent") ~> (handlers[h].pc = "idle")

\* C16 witness: a blocking POST has just returned 200 with the Finished
\* record of its job, which is the persisted one
C16_Witness ==
    /\ blocking
    /\ response.op = "POST" /\ response.status = 200
    /\ response.body.state = "Finished"
    /\ Exists(response.id)
    /\ response.body.result = Row(response.id).result
    /\ response.body.score = Row(response.id).score
    /\ response.body.cases = Row(response.id).cases

\* handler h commits create_job in this step
Creates(h) == handlers[h].pc = "idle" /\ handlers'[h].op = "POST"

Mutated(id) == jobs'[id + 1] # jobs[id + 1]

\* C18: for every job updated_time is never earlier than created_time and
\* never decreases, every mutation of the job refreshes it to the time of
\* the mutation, and created_time is never modified after creation.
C18_UpdatedTimeMonotone ==
    [][\A id \in JobIds :
          /\ (id + 1 \in DOMAIN jobs')
                => jobs'[id + 1].updated_time >= jobs'[id + 1].created_time
          /\ Exists(id)
                => /\ jobs'[id + 1].created_time = Row(id).created_time
                   /\ jobs'[id + 1].updated_time >= Row(id).updated_time
                   /\ Mutated(id) => jobs'[id + 1].updated_time
                                        \in {t \in 0..clock' : t >= Row(id).updated_time}]_vars

\* C19: once the cancellation token is triggered, a worker that is running a
\* job is not interrupted: its next step is the end of the run, and a run
\* that returned a result is persisted as Finished; a worker that is at the
\* head of its loop does not dequeue a message any more, whatever the queue
\* holds: it stays there or exits.
C19_NoDequeueAfterCancel ==
    [][\A w \in Workers :
          token =>
              /\ (workers[w].pc = "run" /\ workers'[w] # workers[w])
                    => \/ /\ jobs'[workers[w].msg.job_id + 1].state = "Finished"
                           /\ workers'[w].pc \in {"send", "pop"}
                       \/ jobs' = jobs /\ workers'[w].pc = "pop"
              /\ workers[w].pc = "pop" => workers'[w].pc \in {"pop", "exited"}
              /\ workers[w].pc = "exited" => workers'[w].pc = "exited"]_vars

\* worker w's run ends in this step
RunEnds(w) == workers[w].pc = "run" /\ workers'[w].pc # "run"

\* the run of worker w ends in this step without a record from the runner:
\* the case rows afterwards are those of no outcome of run
RunnerFailed(w) ==
    /\ RunEnds(w)
    /\ \A outcome \in RunOutcomes :
          jobs'[workers[w].msg.job_id + 1].cases
              # run(workers[w].job, problem_config(workers[w].job), outcome).cases

\* C20: when the runner itself fails for a job the worker carries on with
\* its loop and the job is persisted Finished with result System Error, not
\* left in state Running; a run that returns a record (user code failing or
\* not) is saved as Finished with the results recorded per case.
C20_RunnerFailurePersisted ==
    [][\A w \in Workers :
          /\ RunEnds(w)
                => /\ workers'[w].pc \in {"pop", "send"}
                   /\ jobs'[workers[w].msg.job_id + 1].state = "Finished"
          /\ RunnerFailed(w)
                => jobs'[workers[w].msg.job_id + 1].result = "System Error"]_vars

\* ---------------------------------------------------------------- C21
\* the persisted state of job id is one of states
StateIn(id, states) == Exists(id) /\ State(id) \in states

RanklistReturned == response.op = "GET ranklist" /\ response.status = 200

\* the rule in force for the query (latest when absent)
RuleOf(q) == IF q.scoring_rule = None THEN "latest" ELSE q.scoring_rule

\* the jobs of a user on a problem, in any state
JobsOn(user_id, problem_id) ==
    { jobs[i] : i \in { k \in DOMAIN jobs : /\ jobs[k].submission.user_id = user_id
                                            /\ jobs[k].submission.problem_id = problem_id } }

FinishedOn(user_id, problem_id) == { job \in JobsOn(user_id, problem_id) : job.state = "Finished" }

\* job is a representative of candidates under rule
Represents(job, candidates, rule) ==
    /\ job \in candidates
    /\ IF rule = "latest"
       THEN \A other \in candidates : other.created_time <= job.created_time
       ELSE \A other \in candidates :
                \/ other.score < job.score
                \/ other.score = job.score /\ job.created_time <= other.created_time

\* the problem ids of the ranklist columns
Columns == problem_ids_of(contest_problems)

\* C22: every score of a returned ranklist is the score of a representative
\* among the user's Finished jobs on the problem, or 0 when the user has no
\* Finished job on it: jobs in other states play no part.
C22_OnlyFinishedJobsCount ==
    RanklistReturned =>
        \A e \in DOMAIN response.body, i \in DOMAIN Columns :
            LET entry == response.body[e]
                finished == FinishedOn(entry.user.id, Columns[i])
            IN  IF finished = {}
                THEN entry.scores[i] = 0
                ELSE \E job \in finished :
                        /\ Represents(job, finished, RuleOf(query))
                        /\ entry.scores[i] = job.score

\* ---------------------------------------------------------------- C23
\* the jobs of a user on a problem as get_global_ranklist filters them
problem_jobs_of(user_id, problem_id) ==
    SelectSeq(get_user_jobs(user_id), LAMBDA job : job.submission.problem_id = problem_id)

\* sum of the scores of a ranklist entry
RECURSIVE SumTo(_, _)
SumTo(scores, n) == IF n = 0 THEN 0 ELSE scores[n] + SumTo(scores, n - 1)

\* the UserScore computed for the user of a ranklist entry
ScoreOf(entry) ==
    user_score(entry.user, get_user_jobs(entry.user.id), Columns, RuleOf(query))

\* C23: in a returned ranklist the job chosen for a user and a problem has
\* the maximum created_time under latest (also when the rule is absent) and,
\* under highest, the maximum score and among those the earliest
\* created_time; the entry shows its score, 0 for a problem without a job,
\* and the user's total is the sum of the scores shown.
C23_RepresentativeSelection ==
    RanklistReturned =>
        \A e \in DOMAIN response.body :
            LET entry == response.body[e]
            IN  /\ \A i \in DOMAIN Columns :
                       LET problem_jobs == problem_jobs_of(entry.user.id, Columns[i])
                       IN  IF problem_jobs = << >>
                           THEN entry.scores[i] = 0
                           ELSE /\ Represents(chosen_job(problem_jobs, RuleOf(query)),
                                              JobsOn(entry.user.id, Columns[i]), RuleOf(query))
                                /\ entry.scores[i] = chosen_job(problem_jobs, RuleOf(query)).score
                /\ ScoreOf(entry).total_score = SumTo(entry.scores, Len(entry.scores))

\* under highest a user has two jobs of equal positive score on one problem,
\* created at different times, and a scored job on the other problem
C23_Witness ==
    /\ RanklistReturned
    /\ query.scoring_rule = "highest"
    /\ \E e \in DOMAIN response.body :
           /\ \E a, b \in JobsOn(response.body[e].user.id, 0) :
                  a.score = b.score /\ a.score > 0 /\ a.created_time # b.created_time
           /\ response.body[e].scores = << MaxRankScore, MaxRankScore >>

\* ---------------------------------------------------------------- C24
\* the tie-breaker in force for the query (none when absent)
BreakerOf(q) == IF q.tie_breaker = None THEN "" ELSE q.tie_breaker

\* created_time of the jobs used for scoring the user of an entry
ScoringTimes(entry) ==
    { chosen_job(problem_jobs_of(entry.user.id, Columns[i]), RuleOf(query)).created_time :
          i \in { k \in DOMAIN Columns : problem_jobs_of(entry.user.id, Columns[k]) # << >> } }

\* what the order of an entry depends on: the total of its scores, the
\* latest created_time among the jobs used for scoring (NoTime without one),
\* the number of jobs the user has submitted, and the user id
Key(entry) ==
    LET times == ScoringTimes(entry)
    IN  [total |-> SumTo(entry.scores, Len(entry.scores)),
         time |-> IF times = {} THEN NoTime ELSE CHOOSE t \in times : \A u \in times : u <= t,
         count |-> Cardinality({ k \in DOMAIN jobs : jobs[k].submission.user_id = entry.user.id }),
         id |-> entry.user.id]

\* the entries of the returned ranklist, each position with its key
Keys == { [pos |-> e, key |-> Key(response.body[e])] : e \in DOMAIN response.body }

\* an entry of key a may stand before an entry of key b under the tie-breaker
MayPrecede(a, b, breaker) ==
    \/ a.total > b.total
    \/ /\ a.total = b.total
       /\ breaker = "submission_time" => (b.time = NoTime \/ (a.time # NoTime /\ a.time <= b.time))
       /\ breaker = "submission_count" => a.count <= b.count
       /\ breaker = "user_id" => a.id < b.id

\* C24: a returned ranklist has one entry per user and is ordered by total
\* score descending, equal totals by the tie-breaker: earlier latest
\* scoring-used time first and users without one last (submission_time),
\* fewer submissions first (submission_count), smaller id first (user_id).
C24_RanklistOrder ==
    RanklistReturned =>
        LET keys == Keys
        IN  /\ { response.body[e].user : e \in DOMAIN response.body } = users
            /\ Len(response.body) = Cardinality(users)
            /\ \A a, b \in keys :
                   a.pos < b.pos => MayPrecede(a.key, b.key, BreakerOf(query))

\* under submission_time three users have equal totals: two with different
\* latest scoring-used times and one without any submission
C24_Witness ==
    /\ RanklistReturned
    /\ query.tie_breaker = "submission_time"
    /\ \E a, b, c \in Keys :
           /\ a.key.total = b.key.total
           /\ b.key.total = c.key.total
           /\ a.key.time = 0
           /\ b.key.time = MaxRankTime
           /\ c.key.time = NoTime

\* ---------------------------------------------------------------- C25
\* the user of key a is strictly better than the user of key b
StrictlyBetter(a, b, breaker) ==
    \/ a.total > b.total
    \/ /\ a.total = b.total
       /\ \/ /\ breaker = "submission_time"
             /\ a.time # NoTime
             /\ (b.time = NoTime \/ a.time < b.time)
          \/ breaker = "submission_count" /\ a.count < b.count
          \/ breaker = "user_id" /\ a.id < b.id

\* C25: in a returned ranklist the rank of every entry is 1 + the number of
\* entries whose user is strictly better under total score, then tie-breaker.
C25_RankIsOnePlusBetter ==
    RanklistReturned =>
        LET keys == Keys
        IN  \A e \in keys :
                response.body[e.pos].rank =
                    1 + Cardinality({ f \in keys :
                                        StrictlyBetter(f.key, e.key, BreakerOf(query)) })

\* two users share rank 1 and the third has rank 3
C25_Witness ==
    /\ RanklistReturned
    /\ Len(response.body) = 3
    /\ response.body[1].rank = 1
    /\ response.body[2].rank = 1
    /\ response.body[3].rank = 3
    /\ query.tie_breaker = "submission_count"

\* ---------------------------------------------------------------- C26
\* two keys are tied on every criterion the tie-breaker uses
FullyTied(a, b, breaker) ==
    ~StrictlyBetter(a, b, breaker) /\ ~StrictlyBetter(b, a, breaker)

JobsReturned == response.op = "GET jobs" /\ response.status = 200

\* the instant a present bound stands for
InstantOf(bound) == parse_from_rfc3339(bound.val).instant

\* job satisfies every filter present in q (bounds as instants)
Satisfies(job, q) ==
    /\ q.user_id.some => job.submission.user_id = q.user_id.val
    /\ q.user_name.some =>
           \E u \in users : u.name = q.user_name.val /\ u.id = job.submission.user_id
    /\ q.contest_id.some => job.submission.contest_id = q.contest_id.val
    /\ q.problem_id.some => job.submission.problem_id = q.problem_id.val
    /\ q.language.some => job.submission.language = q.language.val
    /\ q.state.some => job.state = q.state.val
    /\ q.result.some => job.result = q.result.val
    /\ q.from.some => job.created_time >= InstantOf(q.from)
    /\ q.to.some => job.created_time <= InstantOf(q.to)

\* C27: GET /jobs with well-formed bounds returns exactly the jobs that
\* satisfy every filter given (all jobs without filter, none when none
\* match), each once, by created_time ascending, each with its cases by index.
C27_GetJobsFilters ==
    (JobsReturned /\ (query.to.some => parse_from_rfc3339(query.to.val).ok)) =>
        /\ { response.body[i].id : i \in DOMAIN response.body }
               = { jobs[k].id : k \in { n \in DOMAIN jobs : Satisfies(jobs[n], query) } }
        /\ \A i, k \in DOMAIN response.body :
               i < k => /\ response.body[i].id # response.body[k].id
                        /\ response.body[i].created_time <= response.body[k].created_time
        /\ \A i \in DOMAIN response.body :
               /\ response.body[i] = [Row(response.body[i].id) EXCEPT !.cases = response.body[i].cases]
               /\ \A c \in DOMAIN response.body[i].cases : response.body[i].cases[c].id = c - 1

\* ---------------------------------------------------------------- C28
\* a bound is present and is not a well-formed RFC-3339 timestamp
Malformed(bound) == bound.some /\ ~parse_from_rfc3339(bound.val).ok

\* C28: GET /jobs with a malformed `from` or a malformed `to` is answered
\* with ERR_INVALID_ARGUMENT (400, code 1) and no records.
C28_MalformedBoundRejected ==
    (response.op = "GET jobs" /\ (Malformed(query.from) \/ Malformed(query.to))) =>
        /\ response.status = 400
        /\ response.code = 1
        /\ response.body = << >>

\* ---------------------------------------------------------------- C29
\* handler h answers its POST /users request in this step
UserAnswers(h) ==
    \/ handlers[h].pc \in {"user_name_exists", "update_user", "insert"} /\ handlers'[h].pc = "idle"
    \/ handlers[h].pc = "idle" /\ handlers' = handlers /\ requests' # requests

\* the request handler h is answering
RequestOf(h) ==
    IF handlers[h].pc = "idle" THEN query' ELSE [op |-> "users", id |-> handlers[h].id, name |-> handlers[h].name]

\* C29: a POST /users whose name is held by another user when it is answered
\* gets ERR_INVALID_ARGUMENT (400, code 1) and changes no user; a rename of
\* an unknown id gets ERR_NOT_FOUND (404, code 3); user names and user ids
\* stay unique.
C29_UserNameCollision ==
    [][ /\ \A h \in Handlers :
             UserAnswers(h) =>
                 LET request == RequestOf(h)
                 IN  /\ (request.id.some /\ ~find_user(request.id.val))
                            => (response'.status = 404 /\ response'.code = 3 /\ users' = users)
                     /\ ((request.id.some => find_user(request.id.val))
                             /\ user_name_exists(request.name, request.id))
                            => (response'.status = 400 /\ response'.code = 1 /\ users' = users)
        /\ \A u, v \in users' : (u.id = v.id \/ u.name = v.name) => u = v
      ]_vars

\* ---------------------------------------------------------------- C30
\* the comparison was made under judge_type
Compared(judge_type) == query.op = "compare" /\ query.judge_type = judge_type

\* the texts obtained from s by appending one space to one of its lines (at
\* the end of the text or before a newline) or one newline to the text
Appended(s) ==
    { SubSeq(s, 1, i) \o << Space >> \o SubSeq(s, i + 1, Len(s)) :
          i \in { k \in 0..Len(s) : k = Len(s) \/ s[k + 1] = Newline } }
        \cup { Append(s, Newline) }

\* C30: in standard mode the verdict is the equality of the normalised
\* texts, normalisation is idempotent, and the verdict does not change when
\* a trailing space is appended to a line, or a trailing newline to the
\* text, of the output or of the expected answer; in strict mode the verdict
\* is equality of the texts, so each such append makes an equal pair unequal.
C30_OutputComparison ==
    /\ Compared("Standard") =>
           /\ is_correct = (normalize(program_output) = normalize(expected_output))
           /\ normalize(normalize(program_output)) = normalize(program_output)
           /\ \A s \in Appended(program_output) :
                  compare_output_standard(s, expected_output) = is_correct
           /\ \A s \in Appended(expected_output) :
                  compare_output_standard(program_output, s) = is_correct
    /\ Compared("Strict") =>
           /\ is_correct = (program_output = expected_output)
           /\ is_correct =>
                  /\ \A s \in Appended(program_output) : ~compare_output_strict(s, expected_output)
                  /\ \A s \in Appended(expected_output) : ~compare_output_strict(program_output, s)

\* standard mode accepts an output that differs from the expected answer by
\* a space before a newline
C30_Witness ==
    /\ Compared("Standard")
    /\ is_correct
    /\ program_output = << LetterA, Space, Newline >>
    /\ expected_output = << LetterA >>

\* ---------------------------------------------------------------- C31
\* the record worker w's run saves in this step reports a failed compilation
SavesCompileError(w) ==
    /\ RunEnds(w)
    /\ jobs' # jobs
    /\ jobs'[workers[w].msg.job_id + 1].cases[1].result = "Compilation Error"

\* C31: when compilation fails, the record the worker persists has case 0 and
\* the job result Compilation Error, state Finished and score 0, and no test
\* case was executed: cases 1..N are persisted with result Waiting.
C31_CompileErrorRecord ==
    [][\A w \in Workers :
          SavesCompileError(w)
              => LET saved == jobs'[workers[w].msg.job_id + 1]
                 IN  /\ saved.result = "Compilation Error"
                     /\ saved.state = "Finished"
                     /\ saved.score = 0
                     /\ \A i \in 2..Len(saved.cases) : saved.cases[i].result = "Waiting"]_vars

\* ---------------------------------------------------------------- C32
\* the Simple back-end's compile step has returned
SimpleCompiled == response.op = "SimpleRunner::compile_source_code"

\* C32: on the Simple back-end, when the compile command exceeds the 30 s
\* wall-clock limit case 0 is recorded with result Time Limit Exceeded, and
\* when it exits with a non-zero status or leaves no executable case 0 is
\* recorded with result Compilation Error.
C32_CompileTimeoutRecorded ==
    SimpleCompiled =>
        /\ query.status = "timeout"
               => response.body.cases[1].result = "Time Limit Exceeded"
        /\ (query.status = "exit 1" \/ (query.status = "exit 0" /\ ~query.executable_exists))
               => response.body.cases[1].result = "Compilation Error"

\* ---------------------------------------------------------------- C33
\* the Isolated back-end has run one test case
IsolateCaseRun == response.op = "IsolateRunner::run_single_test_case"

\* what the meta file alone says about the case
MetaResult ==
    IF query.meta.some
    THEN process_meta_content(query.meta.val, ResultTemplate)
    ELSE [ResultTemplate EXCEPT !.error = "System Error", !.info = "Failed to read meta file"]

\* C33: on the Isolated back-end the external wall timer turns a test case
\* into Time Limit Exceeded only when the measured elapsed time exceeds
\* case.time_limit and the meta file recorded no other error; a case already
\* classified Memory Limit Exceeded, Runtime Error or System Error keeps
\* that result.
C33_WallTimerOverride ==
    IsolateCaseRun =>
        /\ (response.body.error = "Time Limit Exceeded" /\ MetaResult.error # "Time Limit Exceeded")
               => (query.elapsed_time > case_time_limit /\ MetaResult.error = "")
        /\ MetaResult.error \in {"Memory Limit Exceeded", "Runtime Error", "System Error"}
               => response.body.error = MetaResult.error

\* ---------------------------------------------------------------- C34
\* run_test_cases has returned
TestCasesRun == response.op = "run_test_cases"

\* the result a test case is recorded with
Verdict(t) ==
    IF t.error # "" THEN t.error
    ELSE IF t.correct THEN "Accepted" ELSE "Wrong Answer"

\* the test cases (1-based) that are not Accepted
Failing == { i \in 1..MaxRunCases : Verdict(query.tests[i]) # "Accepted" }

\* sum of the configured scores of the Accepted cases among the first n
RECURSIVE ScoreUpTo(_)
ScoreUpTo(n) ==
    IF n = 0 THEN 0
    ELSE ScoreUpTo(n - 1)
         + (IF Verdict(query.tests[n]) = "Accepted" THEN run_problem.cases[n].score ELSE 0)

\* C34: after a successful compile every configured test case is executed,
\* in index order and whatever the earlier cases did: each case row carries
\* the result of its own execution; the job ends Finished with result equal
\* to the result of the lowest-indexed case that is not Accepted, or Accepted
\* if there is none; a failing case adds nothing to the score.
C34_AllCasesRun ==
    TestCasesRun =>
        /\ response.body.state = "Finished"
        /\ \A i \in 1..MaxRunCases :
               /\ response.body.cases[i + 1].id = i
               /\ response.body.cases[i + 1].result = Verdict(query.tests[i])
        /\ response.body.result =
               IF Failing = {} THEN "Accepted"
               ELSE Verdict(query.tests[CHOOSE i \in Failing : \A j \in Failing : i <= j])
        /\ response.body.score = ScoreUpTo(MaxRunCases)

\* the first case fails with a runtime error, the second is still run and
\* is Accepted: the job's result is the first case's and the score the second's
C34_Witness ==
    /\ TestCasesRun
    /\ response.body.cases[2].result = "Runtime Error"
    /\ response.body.cases[3].result = "Accepted"
    /\ response.body.result = "Runtime Error"
    /\ response.body.score = run_problem.cases[2].score

\* ---------------------------------------------------------------- C35
\* a blocking POST or PUT has just returned the worker's record
FinalRecordReturned ==
    /\ blocking
    /\ response.op \in {"POST", "PUT"}
    /\ response.status = 200

\* record a carries what the persisted record b holds, the time of the last
\* update apart
SameOutcome(a, b) == [a EXCEPT !.updated_time = 0] = [b EXCEPT !.updated_time = 0]

SavesForReply(w) == workers[w].pc # "send" /\ workers'[w].pc = "send"

\* worker w sends its reply in this step
Replies(w) == workers[w].pc = "send" /\ workers'[w].pc # "send"

Resumes(h) == handlers[h].pc = "await" /\ handlers'[h].pc # "await"

\* worker w ends in this step, without a reply, an iteration on a Blocking message
EndsWithoutReply(w) ==
    /\ workers[w].pc \in {"fetch_job", "fetch_cases", "update_job_to_running", "run"}
    /\ workers'[w].pc = "pop"
    /\ IsBlocking(workers[w].msg)

Processing(w, id) ==
    /\ workers[w].pc \in {"fetch_job", "fetch_cases", "update_job_to_running", "run"}
    /\ workers[w].msg.job_id = id

\* C37: in every reachable state the queue holds at most one message per job
\* id and holds no message for a job that a worker is processing, whatever
\* the interleaving of POST, PUT, DELETE and worker steps (two concurrent
\* PUTs on the same terminal job enqueue it once).
C37_OneMessagePerJob ==
    \A id \in JobIds :
        /\ Cardinality(MessagesOf(id)) <= 1
        /\ InQueue(id) => ~(\E w \in Workers : Processing(w, id))

\* ---------------------------------------------------------------- C38
\* GET /jobs/{id} has just returned a record
JobReturned == response.op = "GET" /\ response.status = 200

\* what the job row and the case rows of a job satisfy together at every
\* instant: each transaction that sets the state sets the cases with it
Together(record) ==
    /\ record.state = "Queueing" =>
           \A i \in DOMAIN record.cases : record.cases[i].result = "Waiting"
    /\ record.state = "Canceled" =>
           \A i \in DOMAIN record.cases : record.cases[i].result = "Skipped"
    /\ record.state = "Running" => record.cases[1].result = "Running"
    /\ record.state = "Finished" =>
           record.cases[1].result \in {"Compilation Success", "Compilation Error"}

\* C38: GET /jobs/{id} returns a consistent snapshot: the returned state,
\* result and score and the returned case list are the persisted job row and
\* case rows as they were together at one instant, even when a transaction
\* of a worker, a cancel or a rejudge commits during the request (it never
\* returns state Finished together with reset Waiting cases).
C38_ConsistentSnapshot ==
    /\ \A id \in JobIds : Exists(id) => Together(Row(id))
    /\ JobReturned => Together(response.body)

\* ---------------------------------------------------------------- C39
\* handler h answers a non-blocking POST or PUT in this step
AnswersQueued(h) == ~blocking /\ handlers[h].pc = "push" /\ handlers'[h].pc = "idle"

\* the times record carries are the persisted times of job id after this step
CarriesPersistedTimes(record, id) ==
    /\ record.created_time = jobs'[id + 1].created_time
    /\ record.updated_time = jobs'[id + 1].updated_time

\* C39: the created_time and updated_time carried by a record returned from
\* POST /jobs or PUT /jobs/{id} are the persisted times of the job when the
\* record was produced: by the handler when it answers a non-blocking
\* request (so a rejudge reports the created_time of the creation), by the
\* worker when it saves the result it then sends (so the blocking reply
\* carries the updated_time written by save_result).
C39_ReturnedTimesArePersisted ==
    [][/\ \A h \in Handlers :
             AnswersQueued(h) => CarriesPersistedTimes(response'.body, handlers[h].id)
       /\ \A w \in Workers :
             SavesForReply(w) => CarriesPersistedTimes(workers'[w].job, workers[w].msg.job_id)]_vars

\* ---------------------------------------------------------------- C40
\* worker w is idle in pop: at the top of its loop, between the emptiness
\* check and the notifier, or suspended on the notifier
IdleInPop(w) == workers[w].pc \in {"pop", "pop_front", "notified", "suspended"}

\* C40: no wake-up is lost: wherever the workers are in pop when messages
\* are pushed, a message that is in the queue while some worker is idle in
\* pop is eventually dequeued by an idle worker, with no further push and
\* without a busy worker finishing its job (the queue does not stay
\* non-empty beside an idle worker).
C40_NoLostWakeup ==
    (queue # << >> /\ \E w \in Workers : IdleInPop(w))
        ~> (queue = << >> \/ \A w \in Workers : ~IdleInPop(w))

\* a message is in the queue, its notification stored as a permit, while one
\* worker is between its emptiness check and the notifier and another,
\* notified earlier, is still suspended
C40_Witness ==
    /\ notify.permit
    /\ queue # << >>
    /\ \E w \in Workers : workers[w].pc = "notified"
    /\ \E w \in Workers : workers[w].pc = "suspended"

====
